---- MODULE Spec2Model ----
(***************************************************************************)
(* Model of the asynchronous job orchestration of the ads-optimization     *)
(* agent: the in-memory JobTracker (src/agent/jobs/job_tracker.py) and the  *)
(* background pipelines that drive it (src/agent/jobs/fetch_reports.py,     *)
(* src/agent/ui/api.py), with the report poll loop and the cached access    *)
(* token of the API client (src/agent/api/amazon_ads_client.py).            *)
(*                                                                         *)
(* Conventions.  A Python Optional is a sequence of length <= 1: None is    *)
(* <<>> and a present value v is <<v>>.  A dict is a function; the empty    *)
(* dict is the empty function.  JobTracker._jobs is a Python dict, whose    *)
(* iteration order is insertion order: it is modelled as the sequence of    *)
(* its values in that order.  Progress values are whole percents.           *)
(* datetime.now() is the variable now, a clock that never runs backwards.   *)
(* lastCall records the latest registry call: its arguments, what the       *)
(* registry held for its job id (or, for cleanup, the whole dict) when it   *)
(* was made, and the value it returned.  table is the performance_data      *)
(* table of the database, a set of rows; a call of upsert_performance made  *)
(* on its own is recorded in lastCall as well, with the table it found.     *)
(***************************************************************************)
EXTENDS Integers, Sequences, FiniteSets, TLC

VARIABLES jobs, lastCall, now, calls, runs, client, table

vars == <<jobs, lastCall, now, calls, runs, client, table>>

----------------------------------------------------------------------------
(* Bounds of the model *)

\* records per batch of SpecStore
MaxBatch == 2
\* job ids the registry driver of Spec draws from: 1..MaxJobs
MaxJobs == 2
\* registry calls per behaviour of Spec
MaxCalls == 3
\* the clock of Spec and SpecPipeline runs over 0..MaxClock
MaxClock == 1
\* the clock of SpecSweep and SpecScenario runs over 0..MaxSweepClock
MaxSweepClock == 2
\* jobs the sweep driver of SpecSweep creates
MaxSweepJobs == 3
\* jobs the dispatcher of SpecPipeline accepts
MaxPipeJobs == 2
\* raw records a report or a spreadsheet holds
MaxRecords == 2
\* the clock of SpecToken, time.time(), runs over 0..MaxTokenTime seconds
MaxTokenTime == 3700
\* token requests posted per behaviour
MaxPosts == 4
\* concurrent callers of _get_access_token: 1..MaxCallers
MaxCallers == 2

----------------------------------------------------------------------------
(* Values *)

None == <<>>

Some(v) == <<v>>

EmptyDict == [k \in {} |-> 0]

PENDING == "pending"

IN_PROGRESS == "in_progress"

COMPLETED == "completed"

FAILED == "failed"

TIMEOUT == "timeout"

JobStatus == {PENDING, IN_PROGRESS, COMPLETED, FAILED, TIMEOUT}

TerminalStatuses == {COMPLETED, FAILED, TIMEOUT}

JobIds == 1..MaxJobs

JobTypes == {"fetch", "import"}

\* metadata arguments of create_job: omitted, an empty dict, a non-empty dict
MetadataInputs == {None, Some(EmptyDict), Some([profile_id |-> "p1"])}

StatusInputs == {None} \cup {Some(s) : s \in JobStatus}

\* below the range, inside it, above it
ProgressInputs == {None, Some(-1), Some(50), Some(101)}

RecordsInputs == {None, Some(3)}

ErrorInputs == {None, Some("e1"), Some("e2")}

Min(a, b) == IF b < a THEN b ELSE a

Max(a, b) == IF b > a THEN b ELSE a

----------------------------------------------------------------------------
(* JobInfo and the dict of jobs *)

\* JobInfo(job_id, job_type, status, metadata=...) with the dataclass defaults;
\* started_at defaults to datetime.now()
JobInfo(job_id, job_type, status, metadata, t) ==
    [job_id |-> job_id,
     job_type |-> job_type,
     status |-> status,
     progress |-> 0,
     records_fetched |-> 0,
     errors |-> <<>>,
     started_at |-> t,
     completed_at |-> None,
     metadata |-> metadata]

\* position of job_id's entry in the dict, 0 when the key is absent
IndexOf(d, job_id) ==
    IF \E i \in 1..Len(d) : d[i].job_id = job_id
    THEN CHOOSE i \in 1..Len(d) : d[i].job_id = job_id
    ELSE 0

HasJob(d, job_id) == IndexOf(d, job_id) # 0

\* self._jobs.get(job_id): the value, or None
DictGet(d, job_id) ==
    IF HasJob(d, job_id) THEN Some(d[IndexOf(d, job_id)]) ELSE None

\* self._jobs[job_id] = job: an existing key keeps its position and gets the
\* new value, a new key goes to the end
DictSet(d, job_id, job) ==
    IF HasJob(d, job_id)
    THEN [d EXCEPT ![IndexOf(d, job_id)] = job]
    ELSE Append(d, job)

Keys(d) == {d[i].job_id : i \in 1..Len(d)}

\* a create that drops the metadata it is given
MetadataDropped(metadata) == EmptyDict

\* `metadata or {}`
MetadataOrEmpty(metadata) ==
    IF metadata = None \/ metadata[1] = EmptyDict THEN EmptyDict ELSE metadata[1]

\* a clamp that forgets the lower limit
ClampUpperOnly(progress) == Min(100, progress)

\* max(0.0, min(100.0, progress))
Clamp(progress) == Max(0, Min(100, progress))

\* an update whose error replaces the error list
UpdatedJobReplacingErrors(job, status, progress, records_fetched, error, t) ==
    [job EXCEPT
        !.status = IF status # None THEN status[1] ELSE @,
        !.completed_at =
            IF status # None /\ status[1] \in {COMPLETED, FAILED, TIMEOUT}
            THEN Some(t) ELSE @,
        !.progress = IF progress # None THEN Clamp(progress[1]) ELSE @,
        !.records_fetched =
            IF records_fetched # None THEN records_fetched[1] ELSE @,
        !.errors = IF error # None THEN <<error[1]>> ELSE @]

\* an update that does not stamp a job that times out
UpdatedJobUnstampedTimeout(job, status, progress, records_fetched, error, t) ==
    [job EXCEPT
        !.status = IF status # None THEN status[1] ELSE @,
        !.completed_at =
            IF status # None /\ status[1] \in {COMPLETED, FAILED}
            THEN Some(t) ELSE @,
        !.progress = IF progress # None THEN Clamp(progress[1]) ELSE @,
        !.records_fetched =
            IF records_fetched # None THEN records_fetched[1] ELSE @,
        !.errors = IF error # None THEN Append(@, error[1]) ELSE @]

\* an update that takes an omitted records_fetched for 0
UpdatedJobResettingRecords(job, status, progress, records_fetched, error, t) ==
    [job EXCEPT
        !.status = IF status # None THEN status[1] ELSE @,
        !.completed_at =
            IF status # None /\ status[1] \in {COMPLETED, FAILED, TIMEOUT}
            THEN Some(t) ELSE @,
        !.progress = IF progress # None THEN Clamp(progress[1]) ELSE @,
        !.records_fetched =
            IF records_fetched # None THEN records_fetched[1] ELSE 0,
        !.errors = IF error # None THEN Append(@, error[1]) ELSE @]

\* the body of update_job on a job that exists, at time t
UpdatedJob(job, status, progress, records_fetched, error, t) ==
    [job EXCEPT
        !.status = IF status # None THEN status[1] ELSE @,
        !.completed_at =
            IF status # None /\ status[1] \in {COMPLETED, FAILED, TIMEOUT}
            THEN Some(t) ELSE @,
        !.progress = IF progress # None THEN Clamp(progress[1]) ELSE @,
        !.records_fetched =
            IF records_fetched # None THEN records_fetched[1] ELSE @,
        !.errors = IF error # None THEN Append(@, error[1]) ELSE @]

----------------------------------------------------------------------------
(* JobTracker operations.  Each runs under self._lock and has no suspension *)
(* point inside the lock, so each is one atomic step.                       *)

create_job(job_id, job_type, metadata) ==
    LET job == JobInfo(job_id, job_type, PENDING, MetadataOrEmpty(metadata), now)
    IN  /\ jobs' = DictSet(jobs, job_id, job)
        /\ lastCall' = [op |-> "create", job_id |-> job_id,
                        job_type |-> job_type, metadata |-> metadata,
                        before |-> DictGet(jobs, job_id), ret |-> Some(job)]
        /\ UNCHANGED now

get_job(job_id) ==
    /\ lastCall' = [op |-> "get", job_id |-> job_id,
                    ret |-> DictGet(jobs, job_id)]
    /\ UNCHANGED <<jobs, now>>

\* an update that inserts a record for an id the registry does not hold
update_job_inserting(job_id, status, progress, records_fetched, error) ==
    LET found == DictGet(jobs, job_id)
        base == IF found = None
                THEN JobInfo(job_id, "fetch", PENDING, EmptyDict, now)
                ELSE found[1]
        job == UpdatedJob(base, status, progress, records_fetched, error, now)
    IN  /\ jobs' = DictSet(jobs, job_id, job)
        /\ lastCall' = [op |-> "update", job_id |-> job_id,
                        status |-> status, progress |-> progress,
                        records_fetched |-> records_fetched, error |-> error,
                        before |-> found,
                        ret |-> IF found = None THEN None ELSE Some(job)]
        /\ UNCHANGED now

update_job(job_id, status, progress, records_fetched, error) ==
    LET found == DictGet(jobs, job_id)
        job == UpdatedJob(found[1], status, progress, records_fetched, error, now)
    IN  /\ jobs' = IF found = None THEN jobs ELSE DictSet(jobs, job_id, job)
        /\ lastCall' = [op |-> "update", job_id |-> job_id,
                        status |-> status, progress |-> progress,
                        records_fetched |-> records_fetched, error |-> error,
                        before |-> found,
                        ret |-> IF found = None THEN None ELSE Some(job)]
        /\ UNCHANGED now

\* insertion of job x into a list sorted by started_at, latest first, behind
\* every entry that started at the same time or later
RECURSIVE InsertByStart(_, _)
InsertByStart(s, x) ==
    IF s = <<>> THEN <<x>>
    ELSE IF Head(s).started_at >= x.started_at
         THEN <<Head(s)>> \o InsertByStart(Tail(s), x)
         ELSE <<x>> \o s

\* sorted(self._jobs.values(), key=lambda j: j.started_at, reverse=True):
\* a stable sort, so jobs that started at the same time keep their dict order
RECURSIVE SortedByStart(_)
SortedByStart(d) ==
    IF d = <<>> THEN <<>>
    ELSE InsertByStart(SortedByStart(SubSeq(d, 1, Len(d) - 1)), d[Len(d)])

\* a listing in dict order, left unsorted
list_jobs_unsorted(job_type) ==
    LET listed == IF job_type # None /\ job_type[1] # ""
                  THEN SelectSeq(jobs, LAMBDA j : j.job_type = job_type[1])
                  ELSE jobs
    IN  /\ lastCall' = [op |-> "list", job_type |-> job_type, before |-> jobs,
                        ret |-> listed]
        /\ UNCHANGED <<jobs, now>>

\* list_jobs: `if job_type:` filters on a kind that is neither None nor
\* empty, then the listing is sorted by started_at, latest first
list_jobs(job_type) ==
    LET listed == IF job_type # None /\ job_type[1] # ""
                  THEN SelectSeq(jobs, LAMBDA j : j.job_type = job_type[1])
                  ELSE jobs
    IN  /\ lastCall' = [op |-> "list", job_type |-> job_type, before |-> jobs,
                        ret |-> SortedByStart(listed)]
        /\ UNCHANGED <<jobs, now>>

\* a slice that starts one entry late
SliceFromNext(s, n) ==
    LET start == IF n < 0 THEN Max(Len(s) + n, 0) ELSE Min(n + 1, Len(s))
    IN  SubSeq(s, start + 1, Len(s))

\* the Python slice s[n:], n of either sign
SliceFrom(s, n) ==
    LET start == IF n < 0 THEN Max(Len(s) + n, 0) ELSE Min(n, Len(s))
    IN  SubSeq(s, start + 1, Len(s))

\* a sweep that also deletes jobs that timed out
RemovableWithTimeout == {COMPLETED, FAILED, TIMEOUT}

\* the statuses cleanup_old_jobs deletes
RemovableStatuses == {COMPLETED, FAILED}

\* ids cleanup_old_jobs deletes from dict d
RemovedIds(d, keep_last_n) ==
    LET to_remove == SliceFrom(SortedByStart(d), keep_last_n)
    IN  IF Len(d) <= keep_last_n THEN {}
        ELSE {to_remove[i].job_id : i \in
                {k \in 1..Len(to_remove) : to_remove[k].status \in RemovableStatuses}}

\* del self._jobs[job_id] for every id in ids
DictDel(d, ids) == SelectSeq(d, LAMBDA j : j.job_id \notin ids)

\* a sweep that returns how many jobs lie beyond the window, deleted or not
cleanup_counting_window(keep_last_n) ==
    LET ids == RemovedIds(jobs, keep_last_n)
    IN  /\ jobs' = DictDel(jobs, ids)
        /\ lastCall' = [op |-> "cleanup", keep_last_n |-> keep_last_n,
                        before |-> jobs,
                        ret |-> IF Len(jobs) <= keep_last_n THEN 0
                                ELSE Len(SliceFrom(SortedByStart(jobs), keep_last_n))]
        /\ UNCHANGED now

cleanup_old_jobs(keep_last_n) ==
    LET ids == RemovedIds(jobs, keep_last_n)
    IN  /\ jobs' = DictDel(jobs, ids)
        /\ lastCall' = [op |-> "cleanup", keep_last_n |-> keep_last_n,
                        before |-> jobs, ret |-> Cardinality(ids)]
        /\ UNCHANGED now

----------------------------------------------------------------------------
(* The clock *)

Tick ==
    /\ now < MaxClock
    /\ now' = now + 1
    /\ UNCHANGED <<jobs, lastCall, calls, runs, client, table>>

SweepTick ==
    /\ now < MaxSweepClock
    /\ now' = now + 1
    /\ UNCHANGED <<jobs, lastCall, calls, runs, client, table>>

----------------------------------------------------------------------------
(* Spec: a client that makes up to MaxCalls arbitrary registry calls *)

----------------------------------------------------------------------------
(* AmazonAdsAPIClient: the cached OAuth access token.  client holds the    *)
(* fields access_token and token_expires_at of the one client object, the  *)
(* value of time.time() in seconds, the number of token requests posted so *)
(* far, and for every caller of _get_access_token its position, the client *)
(* fields it found on entry, the token endpoint's response and the value   *)
(* returned.  client.report is a call of fetch_keyword_report made on the  *)
(* client: its position, its arguments and local variables, the exception  *)
(* it raised or the records it returned, and the log of what it did: every *)
(* token it asked for, every HTTP request it sent and every sleep.         *)

\* the 300 of `self.token_expires_at - 300`
ExpiryMargin == 300

\* the 3600 of token_data.get("expires_in", 3600)
DefaultExpiresIn == 3600

\* the callers of _get_access_token: tasks that share the one client
\* get_client() returns
CallerIds == 1..MaxCallers

\* what can be wrong with the answer of the token endpoint: a non-success
\* status, a body that is not JSON, a JSON body without "access_token", and
\* a JSON body whose "expires_in" is not a number
TokenFailures == {"status", "not json", "no access_token", "bad expires_in"}

\* the expires_in field of a token response, None when it has none
ExpiresInInputs == {None, Some(300), Some(600)}

\* seconds that pass between two steps
TimeSteps == {300, 3000}

Caller(pc, entry, response, ret) ==
    [pc |-> pc, entry |-> entry, response |-> response, ret |-> ret]

\* no call of fetch_keyword_report yet
NewReport ==
    [pc |-> "idle", stage |-> "", max_wait |-> 0, report_id |-> None,
     start_time |-> 0, elapsed |-> 0, status_data |-> None, exc |-> None,
     ret |-> None, log |-> <<>>]

\* AmazonAdsAPIClient.__init__
NewClient ==
    [access_token |-> None, token_expires_at |-> 0, time |-> 0, posts |-> 0,
     callers |-> [c \in CallerIds |-> Caller("idle", None, None, None)],
     report |-> NewReport]

\* a cache test without the safety margin
CachedUntilExpiry(cl) ==
    cl.access_token # None /\ cl.time < cl.token_expires_at

\* self.access_token and time.time() < (self.token_expires_at - 300)
CachedValid(cl) ==
    cl.access_token # None /\ cl.time < cl.token_expires_at - ExpiryMargin

\* the client cl after caller c ran _get_access_token up to its await: the
\* cached token is returned, or the token request is posted
TokenCalled(cl, c) ==
    LET entry == [time |-> cl.time, access_token |-> cl.access_token,
                  token_expires_at |-> cl.token_expires_at,
                  posts |-> cl.posts]
    IN  IF CachedValid(cl)
        THEN [cl EXCEPT
                !.callers[c] = Caller("returned", Some(entry), None, cl.access_token)]
        ELSE [cl EXCEPT
                !.posts = @ + 1,
                !.callers[c] = Caller("post", Some(entry), None, None)]

\* the client cl after the token request of caller c failed.
\* raise_for_status, response.json() or token_data["access_token"] raises
\* and nothing is assigned; or self.access_token is assigned and the sum
\* time.time() + expires_in raises.  The token of the n-th request is n.
TokenRaised(cl, c, failure) ==
    LET token == cl.callers[c].entry[1].posts + 1
        raised == Caller("raised", cl.callers[c].entry,
                         Some([time |-> cl.time, expires_in |-> None,
                               failure |-> failure]),
                         None)
    IN  IF failure = "bad expires_in"
        THEN [cl EXCEPT !.access_token = Some(token), !.callers[c] = raised]
        ELSE [cl EXCEPT !.callers[c] = raised]

\* a grant that gives every new token the default lifetime
TokenGrantedDefaultLifetime(cl, c, expires_in) ==
    LET token == cl.callers[c].entry[1].posts + 1
    IN  [cl EXCEPT
            !.access_token = Some(token),
            !.token_expires_at = cl.time + DefaultExpiresIn,
            !.callers[c] =
                Caller("returned", @.entry,
                       Some([time |-> cl.time, expires_in |-> expires_in,
                             failure |-> ""]),
                       Some(token))]

\* the client cl after the token request of caller c succeeded: the new
\* token and its expiry replace the cached ones and the token is returned
TokenGranted(cl, c, expires_in) ==
    LET token == cl.callers[c].entry[1].posts + 1
    IN  [cl EXCEPT
            !.access_token = Some(token),
            !.token_expires_at =
                cl.time + (IF expires_in = None THEN DefaultExpiresIn
                           ELSE expires_in[1]),
            !.callers[c] =
                Caller("returned", @.entry,
                       Some([time |-> cl.time, expires_in |-> expires_in,
                             failure |-> ""]),
                       Some(token))]

\* _get_access_token up to its await
get_access_token(c) ==
    /\ client.callers[c].pc # "post"
    /\ CachedValid(client) \/ client.posts < MaxPosts
    /\ client' = TokenCalled(client, c)
    /\ UNCHANGED <<jobs, lastCall, now, calls, runs, table>>

\* _get_access_token from the response on
token_response(c) ==
    /\ client.callers[c].pc = "post"
    /\ \/ \E failure \in TokenFailures : client' = TokenRaised(client, c, failure)
       \/ \E expires_in \in ExpiresInInputs : client' = TokenGranted(client, c, expires_in)
    /\ UNCHANGED <<jobs, lastCall, now, calls, runs, table>>

\* time.time() moves on
time_passes ==
    \E d \in TimeSteps :
        /\ client.time + d <= MaxTokenTime
        /\ client' = [client EXCEPT !.time = @ + d]
        /\ UNCHANGED <<jobs, lastCall, now, calls, runs, table>>

----------------------------------------------------------------------------
(* Initial state *)

Init ==
    /\ jobs = <<>>
    /\ lastCall = [op |-> "init"]
    /\ now = 0
    /\ calls = 0
    /\ runs = <<>>
    /\ client = NewClient
    /\ table = {}

Counted ==
    /\ calls' = calls + 1
    /\ UNCHANGED <<runs, client, table>>

CallCreate ==
    /\ calls < MaxCalls
    /\ \E j \in JobIds, k \in JobTypes, m \in MetadataInputs :
        create_job(j, k, m) /\ Counted

CallGet ==
    /\ calls < MaxCalls
    /\ \E j \in JobIds : get_job(j) /\ Counted

CallUpdate ==
    /\ calls < MaxCalls
    /\ \E j \in JobIds, s \in StatusInputs, p \in ProgressInputs,
       r \in RecordsInputs, e \in ErrorInputs :
        /\ update_job(j, s, p, r, e)
        /\ Counted

KeepInputs == -1..2

CallCleanup ==
    /\ calls < MaxCalls
    /\ \E n \in KeepInputs : cleanup_old_jobs(n) /\ Counted

Next == Tick \/ CallCreate \/ CallGet \/ CallUpdate \/ CallCleanup

Spec == Init /\ [][Next]_vars

----------------------------------------------------------------------------
(* SpecSweep: jobs are created one after the other under fresh, increasing  *)
(* ids, leave pending for any status, and the retention sweep runs with     *)
(* any keep_last_n.                                                         *)

SweepIds == 1..MaxSweepJobs

SweepCreate ==
    \E j \in SweepIds :
        /\ Len(jobs) + 1 = j
        /\ \A k \in Keys(jobs) : k < j
        /\ create_job(j, "fetch", None)
        /\ UNCHANGED <<calls, runs, client, table>>

SweepUpdate ==
    \E j \in SweepIds, s \in JobStatus :
        /\ HasJob(jobs, j)
        /\ DictGet(jobs, j)[1].status = PENDING
        /\ update_job(j, Some(s), None, None, None)
        /\ UNCHANGED <<calls, runs, client, table>>

SweepCleanup ==
    \E n \in KeepInputs :
        /\ cleanup_old_jobs(n)
        /\ UNCHANGED <<calls, runs, client, table>>

NextSweep == SweepTick \/ SweepCreate \/ SweepUpdate \/ SweepCleanup

SpecSweep == Init /\ [][NextSweep]_vars

----------------------------------------------------------------------------
(* SpecList: jobs of either kind are created one after the other and the    *)
(* registry is listed, with or without a kind.                              *)

\* the job_type arguments of list_jobs
KindInputs == {None, Some(""), Some("fetch"), Some("import")}

ListCreate ==
    \E j \in SweepIds, kind \in JobTypes :
        /\ Len(jobs) + 1 = j
        /\ create_job(j, kind, None)
        /\ UNCHANGED <<calls, runs, client, table>>

ListJobs ==
    \E kind \in KindInputs :
        /\ list_jobs(kind)
        /\ UNCHANGED <<calls, runs, client, table>>

NextList == SweepTick \/ ListCreate \/ ListJobs

SpecList == Init /\ [][NextList]_vars

----------------------------------------------------------------------------
(* SpecScenario: the retention example of five jobs, of which some complete *)
(* and the others stay pending, swept with keep_last_n = 2.                 *)

\* the registry of the example holds five jobs
ScenarioIds == 1..5

ScenarioCreate ==
    \E j \in ScenarioIds :
        /\ Len(jobs) + 1 = j
        /\ \A k \in Keys(jobs) : k < j
        /\ create_job(j, "fetch", None)
        /\ UNCHANGED <<calls, runs, client, table>>

ScenarioComplete ==
    \E j \in ScenarioIds :
        /\ HasJob(jobs, j)
        /\ DictGet(jobs, j)[1].status = PENDING
        /\ update_job(j, Some(COMPLETED), None, None, None)
        /\ UNCHANGED <<calls, runs, client, table>>

ScenarioCleanup ==
    /\ cleanup_old_jobs(2)
    /\ UNCHANGED <<calls, runs, client, table>>

NextScenario == SweepTick \/ ScenarioCreate \/ ScenarioComplete \/ ScenarioCleanup

SpecScenario == Init /\ [][NextScenario]_vars

----------------------------------------------------------------------------
(* SpecPipeline: the dispatcher endpoints create jobs and schedule the      *)
(* background pipelines; every pipeline step is one action.  runs[j] is the *)
(* background task of job j: its kind, its position pc, whether the        *)
(* endpoint that scheduled it has returned its response, the number of raw  *)
(* records it holds, the number of records parsed from them, the number of  *)
(* rows the store reported, the exception it caught, and the seconds the    *)
(* report poll loop has waited.                                             *)

PipeIds == 1..MaxPipeJobs

Run(kind) ==
    [kind |-> kind, pc |-> "start", responded |-> FALSE, records |-> 0,
     parsed |-> 0, persisted |-> 0, exc |-> None, elapsed |-> 0]

\* an exception object: type(exc).__name__ and str(exc)
Exc(type, msg) == [type |-> type, msg |-> msg]

At(j, kind, pc) ==
    /\ j \in 1..Len(runs)
    /\ runs[j].kind = kind
    /\ runs[j].pc = pc

Goto(j, pc) == runs' = [runs EXCEPT ![j].pc = pc]

\* `raise e` inside the try block of the pipeline: control leaves for the
\* except clause that matches the class of e
Caught(j, e, handler) ==
    runs' = [runs EXCEPT ![j].exc = Some(e), ![j].pc = handler]

\* an id generator that gives a request the id of the request before it
generate_job_id_repeated == IF runs = <<>> THEN 1 ELSE Len(runs)

\* generate_job_id: a fresh id for every request (the time to the second and
\* eight hex digits of a uuid4)
generate_job_id == Len(runs) + 1

\* POST /api/fetch
trigger_fetch ==
    /\ generate_job_id \in PipeIds
    /\ create_job(generate_job_id, "fetch",
                  Some([profile_id |-> "p1", report_type |-> "KEYWORDS"]))
    /\ runs' = Append(runs, Run("fetch"))
    /\ UNCHANGED <<calls, client, table>>

\* POST /api/import, past the validation of the upload
import_file ==
    /\ generate_job_id \in PipeIds
    /\ create_job(generate_job_id, "import",
                  Some([profile_id |-> "p1", upload_id |-> "u1"]))
    /\ runs' = Append(runs, Run("import"))
    /\ UNCHANGED <<calls, client, table>>

\* the endpoint returns its response (job_id, status pending); the
\* background task it added runs after the response
respond ==
    \E j \in PipeIds :
        /\ j \in 1..Len(runs)
        /\ ~runs[j].responded
        /\ runs' = [runs EXCEPT ![j].responded = TRUE]
        /\ UNCHANGED <<jobs, lastCall, now, calls, client, table>>

\* GET /api/fetch/status/{job_id} and GET /api/import/status/{job_id}
get_status ==
    \E j \in PipeIds :
        /\ get_job(j)
        /\ UNCHANGED <<calls, runs, client, table>>

(* fetch_reports_async *)

\* a background task that starts while the endpoint is still running
FetchStartEarly ==
    \E j \in PipeIds :
        /\ At(j, "fetch", "start")
        /\ update_job(j, Some(IN_PROGRESS), Some(0), None, None)
        /\ Goto(j, "request")
        /\ UNCHANGED <<calls, client, table>>

\* a first update that sets the progress and not the status
FetchStartNoStatus ==
    \E j \in PipeIds :
        /\ At(j, "fetch", "start")
        /\ runs[j].responded
        /\ update_job(j, None, Some(0), None, None)
        /\ Goto(j, "request")
        /\ UNCHANGED <<calls, client, table>>

\* await tracker.update_job(job_id, status=JobStatus.IN_PROGRESS, progress=0.0),
\* the first statement of the task, run once the endpoint has returned
FetchStart ==
    \E j \in PipeIds :
        /\ At(j, "fetch", "start")
        /\ runs[j].responded
        /\ update_job(j, Some(IN_PROGRESS), Some(0), None, None)
        /\ Goto(j, "request")
        /\ UNCHANGED <<calls, client, table>>

\* the except clauses of fetch_reports_async that catch e, in order.  The
\* first names asyncio.TimeoutError, which is the builtin TimeoutError the
\* client raises from Python 3.11 on and a class of its own before that, so
\* which clause catches the client's TimeoutError depends on the
\* interpreter; every other exception reaches `except Exception`.
FetchHandlers(e) ==
    IF e.type = "TimeoutError" THEN {"timeout", "failed"} ELSE {"failed"}

FetchRaise(j, e) == \E handler \in FetchHandlers(e) : Caught(j, e, handler)

\* get_client(), then the second update; get_client may raise
FetchRequest ==
    \E j \in PipeIds :
        /\ At(j, "fetch", "request")
        /\ \/ update_job(j, None, Some(10), None, None) /\ Goto(j, "fetch")
           \/ /\ FetchRaise(j, Exc("Exception", "no client"))
              /\ UNCHANGED <<jobs, lastCall, now>>
        /\ UNCHANGED <<calls, client, table>>

\* raise TimeoutError(...) of fetch_keyword_report
ReportTimeout == Exc("TimeoutError", "Report did not complete")

\* await client.fetch_keyword_report(...) seen from the pipeline: records,
\* the TimeoutError of the poll loop, or another exception
FetchReport ==
    \E j \in PipeIds :
        /\ At(j, "fetch", "fetch")
        /\ \/ \E n \in 0..MaxRecords :
                runs' = [runs EXCEPT ![j].records = n, ![j].pc = "downloaded"]
           \/ FetchRaise(j, ReportTimeout)
           \/ FetchRaise(j, Exc("Exception", "Report failed"))
        /\ UNCHANGED <<jobs, lastCall, now, calls, client, table>>

\* a third update that reports a progress below the second one's
FetchDownloadedLow ==
    \E j \in PipeIds :
        /\ At(j, "fetch", "downloaded")
        /\ update_job(j, None, Some(6), Some(runs[j].records), None)
        /\ Goto(j, "parsed")
        /\ UNCHANGED <<calls, client, table>>

FetchDownloaded ==
    \E j \in PipeIds :
        /\ At(j, "fetch", "downloaded")
        /\ update_job(j, None, Some(60), Some(runs[j].records), None)
        /\ Goto(j, "parsed")
        /\ UNCHANGED <<calls, client, table>>

\* the parse loop keeps the records it can parse, drops the others and
\* never raises; then the fourth update
FetchParsed ==
    \E j \in PipeIds :
        /\ At(j, "fetch", "parsed")
        /\ update_job(j, None, Some(80), None, None)
        /\ \E n \in 0..runs[j].records :
              runs' = [runs EXCEPT ![j].parsed = n, ![j].pc = "store"]
        /\ UNCHANGED <<calls, client, table>>

\* n records whose profile_id attribute is p (None when they have none)
RecordProfiles(n, p) == [i \in 1..n |-> p]

\* dao.upsert_performance(records, profile_id): the number of rows stored.
\* Without a profile_id argument a record with no profile id of its own is
\* skipped, and the first one found is used from then on.
RECURSIVE upsert_performance(_, _)
upsert_performance(records, profile_id) ==
    IF records = <<>> THEN 0
    ELSE IF profile_id = None
         THEN IF Head(records) \in {None, Some("")}
              THEN upsert_performance(Tail(records), Head(records))
              ELSE 1 + upsert_performance(Tail(records), Head(records))
         ELSE 1 + upsert_performance(Tail(records), profile_id)

\* a record as parse_amazon_record_to_performance, import_csv and
\* import_excel build it: it has no profile_id attribute; value stands for
\* its metrics
Record(keyword_id, date, value) ==
    [keyword_id |-> keyword_id, profile_id |-> None, date |-> date, value |-> value]

\* the profile_id attributes of a list of records
ProfilesOf(records) == [i \in 1..Len(records) |-> records[i].profile_id]

\* the n records of a pipeline run
PipelineRecords(n) == [i \in 1..n |-> Record(i, 0, 0)]

\* the columns of the unique index idx_unique_keyword_profile_date
Key(row) == <<row.keyword_id, row.profile_id, row.date>>

\* an insert that does not look for a row with the same key
InsertRow(rows, record, profile_id, t) ==
    rows \cup {[keyword_id |-> record.keyword_id, profile_id |-> profile_id,
                date |-> record.date, value |-> record.value,
                created_at |-> t, updated_at |-> t]}

\* INSERT ... ON CONFLICT (keyword_id, profile_id, date) DO UPDATE at time t:
\* the row with the key takes the metrics and updated_at of the new one and
\* keeps its created_at; without such a row the new one is added
UpsertRow(rows, record, profile_id, t) ==
    LET key == <<record.keyword_id, profile_id, record.date>>
    IN  IF \E row \in rows : Key(row) = key
        THEN {IF Key(row) = key
              THEN [row EXCEPT !.value = record.value, !.updated_at = t]
              ELSE row : row \in rows}
        ELSE rows \cup {[keyword_id |-> record.keyword_id, profile_id |-> profile_id,
                         date |-> record.date, value |-> record.value,
                         created_at |-> t, updated_at |-> t]}

\* the table after upsert_performance(records, profile_id) has committed at
\* time t: the loop of upsert_performance, one statement per record kept
RECURSIVE Upserted(_, _, _, _)
Upserted(rows, records, profile_id, t) ==
    IF records = <<>> THEN rows
    ELSE IF profile_id = None
         THEN IF Head(records).profile_id \in {None, Some("")}
              THEN Upserted(rows, Tail(records), Head(records).profile_id, t)
              ELSE Upserted(UpsertRow(rows, Head(records), Head(records).profile_id[1], t),
                            Tail(records), Head(records).profile_id, t)
         ELSE Upserted(UpsertRow(rows, Head(records), profile_id[1], t),
                       Tail(records), profile_id, t)

\* a completing update that reports the number of records parsed
FetchStoreParsed ==
    \E j \in PipeIds :
        /\ At(j, "fetch", "store")
        /\ \/ /\ update_job(j, Some(COMPLETED), Some(100),
                             Some(runs[j].parsed), None)
              /\ runs' = [runs EXCEPT
                    ![j].persisted =
                        upsert_performance(RecordProfiles(runs[j].parsed, None),
                                           Some("p1")),
                    ![j].pc = "done"]
              /\ table' = Upserted(table, PipelineRecords(runs[j].parsed),
                                   Some("p1"), now)
           \/ /\ runs[j].parsed > 0
              /\ FetchRaise(j, Exc("Exception", "store failed"))
              /\ UNCHANGED <<jobs, lastCall, now, table>>
        /\ UNCHANGED <<calls, client>>

\* if performance_records: dao.upsert_performance(..., profile_id), then the
\* completing update; the store may raise
FetchStored(j) ==
    /\ \/ /\ update_job(j, Some(COMPLETED), Some(100),
                         Some(runs[j].records), None)
          /\ runs' = [runs EXCEPT
                ![j].persisted =
                    upsert_performance(RecordProfiles(runs[j].parsed, None),
                                       Some("p1")),
                ![j].pc = "done"]
          /\ table' = Upserted(table, PipelineRecords(runs[j].parsed),
                               Some("p1"), now)
       \/ /\ runs[j].parsed > 0
          /\ FetchRaise(j, Exc("Exception", "store failed"))
          /\ UNCHANGED <<jobs, lastCall, now, table>>
    /\ UNCHANGED <<calls, client>>

\* the store and the completing update as one step of the task
FetchStore ==
    \E j \in PipeIds :
        /\ At(j, "fetch", "store")
        /\ FetchStored(j)

\* except asyncio.TimeoutError
FetchTimeout ==
    \E j \in PipeIds :
        /\ At(j, "fetch", "timeout")
        /\ update_job(j, Some(TIMEOUT), None, None,
                      Some("Amazon Ads API report timed out"))
        /\ Goto(j, "done")
        /\ UNCHANGED <<calls, client, table>>

\* error_msg = f"{type(exc).__name__}: {str(exc)}"
error_msg(exc) == exc.type \o ": " \o exc.msg

\* an except clause that records the failure as a timeout
FetchFailedAsTimeout ==
    \E j \in PipeIds :
        /\ At(j, "fetch", "failed")
        /\ update_job(j, Some(TIMEOUT), None, None, Some(error_msg(runs[j].exc[1])))
        /\ Goto(j, "done")
        /\ UNCHANGED <<calls, client, table>>

\* except Exception as exc
FetchFailed ==
    \E j \in PipeIds :
        /\ At(j, "fetch", "failed")
        /\ update_job(j, Some(FAILED), None, None, Some(error_msg(runs[j].exc[1])))
        /\ Goto(j, "done")
        /\ UNCHANGED <<calls, client, table>>

(* import_spreadsheet_async *)

ImportStart ==
    \E j \in PipeIds :
        /\ At(j, "import", "start")
        /\ runs[j].responded
        /\ update_job(j, Some(IN_PROGRESS), Some(10), None, None)
        /\ Goto(j, "parse")
        /\ UNCHANGED <<calls, client, table>>

\* import_csv / import_excel, then the second update; an unsupported suffix
\* or an unreadable file raises
ImportParse ==
    \E j \in PipeIds :
        /\ At(j, "import", "parse")
        /\ \/ \E n \in 0..MaxRecords :
                /\ update_job(j, None, Some(50), None, None)
                /\ runs' = [runs EXCEPT ![j].records = n,
                                        ![j].pc = IF n = 0 THEN "empty" ELSE "store"]
           \/ /\ Caught(j, Exc("ValueError", "Unsupported file type"), "failed")
              /\ UNCHANGED <<jobs, lastCall, now>>
        /\ UNCHANGED <<calls, client, table>>

\* an empty import that is reported as a failure
ImportEmptyFailed ==
    \E j \in PipeIds :
        /\ At(j, "import", "empty")
        /\ update_job(j, Some(FAILED), Some(100), None,
                      Some("No valid records found in file"))
        /\ Goto(j, "done")
        /\ UNCHANGED <<calls, client, table>>

\* if not records
ImportEmpty ==
    \E j \in PipeIds :
        /\ At(j, "import", "empty")
        /\ update_job(j, Some(COMPLETED), Some(100), None,
                      Some("No valid records found in file"))
        /\ Goto(j, "done")
        /\ UNCHANGED <<calls, client, table>>

\* persisted = dao.upsert_performance(records): no profile_id is passed and
\* the records import_csv and import_excel build have no profile_id
\* attribute; the store may raise
ImportStored(j) ==
    /\ \/ /\ runs' = [runs EXCEPT
                ![j].persisted =
                    upsert_performance(RecordProfiles(runs[j].records, None), None),
                ![j].pc = "metadata"]
          /\ table' = Upserted(table, PipelineRecords(runs[j].records), None, now)
       \/ /\ Caught(j, Exc("Exception", "store failed"), "failed")
          /\ UNCHANGED table
    /\ UNCHANGED <<jobs, lastCall, now, calls, client>>

\* the store as one step of the task
ImportStore ==
    \E j \in PipeIds :
        /\ At(j, "import", "store")
        /\ ImportStored(j)

\* the three assignments to job.metadata
WithRowCounts(metadata, records, persisted) ==
    [k \in DOMAIN metadata \cup {"rows_processed", "rows_added", "rows_skipped"} |->
        IF k = "rows_processed" THEN records
        ELSE IF k = "rows_added" THEN persisted
        ELSE IF k = "rows_skipped" THEN records - persisted
        ELSE metadata[k]]

\* job = await tracker.get_job(job_id), then the writes to job.metadata,
\* made on the record the registry holds
ImportMetadata ==
    \E j \in PipeIds :
        /\ At(j, "import", "metadata")
        /\ lastCall' = [op |-> "get", job_id |-> j, ret |-> DictGet(jobs, j)]
        /\ jobs' = IF HasJob(jobs, j) /\ DictGet(jobs, j)[1].metadata # EmptyDict
                   THEN [jobs EXCEPT ![IndexOf(jobs, j)].metadata =
                            WithRowCounts(@, runs[j].records, runs[j].persisted)]
                   ELSE jobs
        /\ Goto(j, "complete")
        /\ UNCHANGED <<now, calls, client, table>>

\* a completing update that leaves the progress where it is
ImportCompleteNoProgress ==
    \E j \in PipeIds :
        /\ At(j, "import", "complete")
        /\ update_job(j, Some(COMPLETED), None, Some(runs[j].persisted), None)
        /\ Goto(j, "done")
        /\ UNCHANGED <<calls, client, table>>

\* the completing update of import_spreadsheet_async
ImportComplete ==
    \E j \in PipeIds :
        /\ At(j, "import", "complete")
        /\ update_job(j, Some(COMPLETED), Some(100), Some(runs[j].persisted), None)
        /\ Goto(j, "done")
        /\ UNCHANGED <<calls, client, table>>

\* except Exception as exc: error=str(exc)
ImportFailed ==
    \E j \in PipeIds :
        /\ At(j, "import", "failed")
        /\ update_job(j, Some(FAILED), None, None, Some(runs[j].exc[1].msg))
        /\ Goto(j, "done")
        /\ UNCHANGED <<calls, client, table>>

NextPipeline ==
    \/ Tick
    \/ trigger_fetch
    \/ import_file
    \/ respond
    \/ get_status
    \/ FetchStart
    \/ FetchRequest
    \/ FetchReport
    \/ FetchDownloaded
    \/ FetchParsed
    \/ FetchStore
    \/ FetchTimeout
    \/ FetchFailed
    \/ ImportStart
    \/ ImportParse
    \/ ImportEmpty
    \/ ImportStore
    \/ ImportMetadata
    \/ ImportComplete
    \/ ImportFailed

SpecPipeline == Init /\ [][NextPipeline]_vars

-----------------------------------------------------------------------------
(* SpecLoop: the pipelines of SpecPipeline on the event loop that runs      *)
(* them, with the store taken as a call that lasts.  fetch_reports_async    *)
(* and import_spreadsheet_async are coroutines, which BackgroundTasks       *)
(* awaits on the loop of the server; dao.upsert_performance is a plain      *)
(* function working on a session of get_sync_session(), called without      *)
(* await: from its call to its return the loop runs no other task and no    *)
(* request handler.  The calls that are awaited (tracker.update_job,        *)
(* client.fetch_keyword_report) leave the loop to the others while they     *)
(* wait.                                                                    *)

\* the loop is not inside a synchronous call of one of its tasks
LoopFree == \A j \in 1..Len(runs) : runs[j].pc # "upsert"

\* rows_added = dao.upsert_performance(performance_records, ...) is called
FetchUpsert ==
    \E j \in PipeIds :
        /\ At(j, "fetch", "store")
        /\ runs[j].parsed > 0
        /\ Goto(j, "upsert")
        /\ UNCHANGED <<jobs, lastCall, now, calls, client, table>>

\* the call returns or raises, and the task goes on to its next await
FetchUpserted ==
    \E j \in PipeIds :
        /\ At(j, "fetch", "upsert")
        /\ FetchStored(j)

\* persisted = dao.upsert_performance(records) is called
ImportUpsert ==
    \E j \in PipeIds :
        /\ At(j, "import", "store")
        /\ Goto(j, "upsert")
        /\ UNCHANGED <<jobs, lastCall, now, calls, client, table>>

\* the call returns or raises
ImportUpserted ==
    \E j \in PipeIds :
        /\ At(j, "import", "upsert")
        /\ ImportStored(j)

\* else: rows_added = 0, then the completing update
FetchStoreNothing ==
    \E j \in PipeIds :
        /\ At(j, "fetch", "store")
        /\ runs[j].parsed = 0
        /\ FetchStored(j)

\* the loop runs a request handler or a task up to its next await, unless it
\* is inside a synchronous call, which it runs to its return
NextLoop ==
    \/ Tick
    \/ FetchUpserted
    \/ ImportUpserted
    \/ LoopFree /\ trigger_fetch
    \/ LoopFree /\ import_file
    \/ LoopFree /\ respond
    \/ LoopFree /\ get_status
    \/ LoopFree /\ FetchStart
    \/ LoopFree /\ FetchRequest
    \/ LoopFree /\ FetchReport
    \/ LoopFree /\ FetchDownloaded
    \/ LoopFree /\ FetchParsed
    \/ LoopFree /\ FetchStoreNothing
    \/ LoopFree /\ FetchUpsert
    \/ LoopFree /\ FetchTimeout
    \/ LoopFree /\ FetchFailed
    \/ LoopFree /\ ImportStart
    \/ LoopFree /\ ImportParse
    \/ LoopFree /\ ImportEmpty
    \/ LoopFree /\ ImportUpsert
    \/ LoopFree /\ ImportMetadata
    \/ LoopFree /\ ImportComplete
    \/ LoopFree /\ ImportFailed

SpecLoop == Init /\ [][NextLoop]_vars

----------------------------------------------------------------------------
(* SpecRun: one job is submitted and its pipeline runs to its end, with     *)
(* fetch_keyword_report taken step by step: the report request, the poll    *)
(* loop with its elapsed-time check, and the download.  The event loop      *)
(* keeps running a task that can take a step, and every call the task       *)
(* awaits returns or raises.                                                *)

\* max_wait_seconds=600.0 as fetch_reports_async passes it
MaxWaitSeconds == 600

\* poll_interval = 5.0
PollInterval == 5

\* seconds a status request may take; 0 is an answer that comes within the
\* clock's resolution
CallDurations == {0, 2}

\* the status field of a status response; "UNKNOWN" is any other value
ReportStatuses == {"SUCCESS", "FAILURE", "FAILED", "IN_PROGRESS", "PENDING", "UNKNOWN"}

RunFetch == Len(runs) = 0 /\ trigger_fetch

RunImport == Len(runs) = 0 /\ import_file

\* report_id = await self.request_report(...); start_time = time.time()
ClientRequest ==
    \E j \in PipeIds :
        /\ At(j, "fetch", "fetch")
        /\ \/ runs' = [runs EXCEPT ![j].elapsed = 0, ![j].pc = "poll"]
           \/ FetchRaise(j, Exc("HTTPStatusError", "request failed"))
        /\ UNCHANGED <<jobs, lastCall, now, calls, client, table>>

\* elapsed = time.time() - start_time; if elapsed > max_wait_seconds: raise
ClientCheck ==
    \E j \in PipeIds :
        /\ At(j, "fetch", "poll")
        /\ IF runs[j].elapsed > MaxWaitSeconds
           THEN FetchRaise(j, ReportTimeout)
           ELSE Goto(j, "status")
        /\ UNCHANGED <<jobs, lastCall, now, calls, client, table>>

\* a poll loop that notes a FAILURE or FAILED status and keeps polling
ClientStatusKeepsPolling ==
    \E j \in PipeIds :
        /\ At(j, "fetch", "status")
        /\ \/ \E d \in CallDurations, status \in ReportStatuses, location \in BOOLEAN :
                LET waited == [runs EXCEPT ![j].elapsed = @ + d]
                IN  IF status = "SUCCESS"
                    THEN IF location
                         THEN runs' = [waited EXCEPT ![j].pc = "download"]
                         ELSE runs' = [waited EXCEPT
                                  ![j].exc = Some(Exc("Exception", "no download location")),
                                  ![j].pc = "failed"]
                    ELSE IF status \in {"FAILURE", "FAILED"}
                         THEN runs' = [waited EXCEPT
                                  ![j].exc = Some(Exc("Exception", "Report failed")),
                                  ![j].pc = "sleep"]
                         ELSE runs' = [waited EXCEPT ![j].pc = "sleep"]
           \/ FetchRaise(j, Exc("HTTPStatusError", "status failed"))
        /\ UNCHANGED <<jobs, lastCall, now, calls, client, table>>

\* status_data = await self.get_report_status(report_id), and the branch on
\* its status
ClientStatus ==
    \E j \in PipeIds :
        /\ At(j, "fetch", "status")
        /\ \/ \E d \in CallDurations, status \in ReportStatuses, location \in BOOLEAN :
                LET waited == [runs EXCEPT ![j].elapsed = @ + d]
                IN  IF status = "SUCCESS"
                    THEN IF location
                         THEN runs' = [waited EXCEPT ![j].pc = "download"]
                         ELSE runs' = [waited EXCEPT
                                  ![j].exc = Some(Exc("Exception", "no download location")),
                                  ![j].pc = "failed"]
                    ELSE IF status \in {"FAILURE", "FAILED"}
                         THEN runs' = [waited EXCEPT
                                  ![j].exc = Some(Exc("Exception", "Report failed")),
                                  ![j].pc = "failed"]
                         ELSE runs' = [waited EXCEPT ![j].pc = "sleep"]
           \/ FetchRaise(j, Exc("HTTPStatusError", "status failed"))
        /\ UNCHANGED <<jobs, lastCall, now, calls, client, table>>

\* a sleep during which no time passes
ClientSleepNoTime ==
    \E j \in PipeIds :
        /\ At(j, "fetch", "sleep")
        /\ runs' = [runs EXCEPT ![j].pc = "poll"]
        /\ UNCHANGED <<jobs, lastCall, now, calls, client, table>>

\* await asyncio.sleep(poll_interval)
ClientSleep ==
    \E j \in PipeIds :
        /\ At(j, "fetch", "sleep")
        /\ runs' = [runs EXCEPT ![j].elapsed = @ + PollInterval, ![j].pc = "poll"]
        /\ UNCHANGED <<jobs, lastCall, now, calls, client, table>>

\* return await self.download_report(report_url)
ClientDownload ==
    \E j \in PipeIds :
        /\ At(j, "fetch", "download")
        /\ \/ \E n \in 0..MaxRecords :
                runs' = [runs EXCEPT ![j].records = n, ![j].pc = "downloaded"]
           \/ FetchRaise(j, Exc("HTTPStatusError", "download failed"))
        /\ UNCHANGED <<jobs, lastCall, now, calls, client, table>>

\* the steps of the endpoint and of the background task
RunStep ==
    \/ respond
    \/ FetchStart
    \/ FetchRequest
    \/ ClientRequest
    \/ ClientCheck
    \/ ClientStatus
    \/ ClientSleep
    \/ ClientDownload
    \/ FetchDownloaded
    \/ FetchParsed
    \/ FetchStore
    \/ FetchTimeout
    \/ FetchFailed
    \/ ImportStart
    \/ ImportParse
    \/ ImportEmpty
    \/ ImportStore
    \/ ImportMetadata
    \/ ImportComplete
    \/ ImportFailed

NextRun == Tick \/ RunFetch \/ RunImport \/ RunStep

SpecRun == Init /\ [][NextRun]_vars /\ WF_vars(RunStep)

----------------------------------------------------------------------------
(* SpecStore: upsert_performance is called on the table time after time,   *)
(* with any batch of records and any profile_id argument.  A call commits  *)
(* all its statements at once or, when one of them raises, rolls them all  *)
(* back.                                                                    *)

\* (keyword_id, date) of the records of a batch
RecordKeyInputs == {<<1, 0>>, <<2, 0>>, <<1, 1>>}

ValueInputs == {0, 1}

RecordInputs == {Record(k[1], k[2], v) : k \in RecordKeyInputs, v \in ValueInputs}

\* the lists of at most MaxBatch records
BatchInputs == UNION {[1..n -> RecordInputs] : n \in 0..MaxBatch}

\* the profile_id argument
ProfileInputs == {None, Some("p1"), Some("p2")}

\* upsert_performance(records, profile_id): it returns the number of
\* statements it executed, or raises and leaves the table as it was
upsert_call(records, profile_id) ==
    /\ \/ /\ table' = Upserted(table, records, profile_id, now)
          /\ lastCall' = [op |-> "upsert", records |-> records,
                          profile_id |-> profile_id, before |-> table,
                          ret |-> Some(upsert_performance(ProfilesOf(records),
                                                          profile_id))]
       \/ /\ records # <<>>
          /\ table' = table
          /\ lastCall' = [op |-> "upsert", records |-> records,
                          profile_id |-> profile_id, before |-> table,
                          ret |-> None]
    /\ UNCHANGED <<jobs, now>>

CallUpsert ==
    /\ calls < MaxCalls
    /\ \E records \in BatchInputs, profile_id \in ProfileInputs :
          upsert_call(records, profile_id)
    /\ calls' = calls + 1
    /\ UNCHANGED <<runs, client>>

NextStore == Tick \/ CallUpsert

SpecStore == Init /\ [][NextStore]_vars

----------------------------------------------------------------------------
(* SpecReport: one call of fetch_keyword_report on the client, request by   *)
(* request.  Every request that goes through _make_request first asks      *)
(* _get_access_token for a token, as caller 1.  The clock is the client's   *)
(* time.time(): a status request takes some of CallDurations and a sleep    *)
(* takes poll_interval; a token request takes some of CallDurations too.    *)

\* the max_wait_seconds argument
MaxWaitInputs == {5, 10}

\* status_data.get("status"): None when the response has no status
StatusResponses == {None} \cup {Some(s) : s \in ReportStatuses}

\* an entry of the log: a token asked for (token: the one returned), a
\* request sent (token: the one in its Authorization header, None without
\* such a header) or a sleep; ok is FALSE when the step raised; data is
\* what a request was answered with: the status of a status response, the
\* number of records of a download
Event(ev, token, ok) == [ev |-> ev, token |-> token, ok |-> ok, data |-> None]

Answered(ev, token, data) ==
    [ev |-> ev, token |-> token, ok |-> TRUE, data |-> Some(data)]

Logged(cl, event) == [cl EXCEPT !.report.log = Append(@, event)]

\* `raise e` in fetch_keyword_report or below it
ReportRaised(cl, e) == [cl EXCEPT !.report.pc = "raised", !.report.exc = Some(e)]

\* the exception a failed token request raises
TokenExc(failure) ==
    Exc(IF failure = "status" THEN "HTTPStatusError"
        ELSE IF failure = "not json" THEN "JSONDecodeError"
        ELSE IF failure = "no access_token" THEN "KeyError"
        ELSE "TypeError",
        "token " \o failure)

\* await client.fetch_keyword_report(start_date, end_date, max_wait_seconds)
fetch_keyword_report ==
    /\ client.report.pc = "idle"
    /\ \E max_wait \in MaxWaitInputs :
          client' = [client EXCEPT !.report.pc = "create",
                                   !.report.stage = "token",
                                   !.report.max_wait = max_wait]
    /\ UNCHANGED <<jobs, lastCall, now, calls, runs, table>>

\* token = await self._get_access_token(), up to its await
make_request_token ==
    /\ client.report.pc \in {"create", "poll"}
    /\ client.report.stage = "token"
    /\ CachedValid(client) \/ client.posts < MaxPosts
    /\ LET cl == TokenCalled(client, 1)
       IN  client' =
             IF cl.callers[1].pc = "returned"
             THEN Logged([cl EXCEPT !.report.stage = "http"],
                         Event("get_token", cl.callers[1].ret, TRUE))
             ELSE [cl EXCEPT !.report.stage = "wait"]
    /\ UNCHANGED <<jobs, lastCall, now, calls, runs, table>>

\* token = await self._get_access_token(), from the token response on; the
\* token request took some of CallDurations
make_request_token_response ==
    /\ client.report.pc \in {"create", "poll"}
    /\ client.report.stage = "wait"
    /\ \E d \in CallDurations :
        /\ client.time + d <= MaxTokenTime
        /\ LET answered == [client EXCEPT !.time = @ + d]
           IN  \/ \E failure \in TokenFailures :
                    client' = Logged(ReportRaised(TokenRaised(answered, 1, failure),
                                                  TokenExc(failure)),
                                     Event("get_token", None, FALSE))
               \/ \E expires_in \in ExpiresInInputs :
                    LET cl == TokenGranted(answered, 1, expires_in)
                    IN  client' = Logged([cl EXCEPT !.report.stage = "http"],
                                         Event("get_token", cl.callers[1].ret, TRUE))
    /\ UNCHANGED <<jobs, lastCall, now, calls, runs, table>>

\* a request_report that answers a failed POST by dropping the cached token
\* and sending the request again with a new one
request_report_retry ==
    /\ client.report.pc = "create"
    /\ client.report.stage = "http"
    /\ LET token == client.callers[1].ret
       IN  \/ client' = Logged([client EXCEPT !.access_token = None,
                                              !.report.stage = "token"],
                               Event("create", token, FALSE))
           \/ client' = Logged(ReportRaised(client, Exc("Exception", "Failed to get report ID")),
                               Event("create", token, TRUE))
           \/ client' = Logged([client EXCEPT !.report.pc = "check",
                                              !.report.stage = "",
                                              !.report.report_id = Some("r1"),
                                              !.report.start_time = client.time],
                               Event("create", token, TRUE))
    /\ UNCHANGED <<jobs, lastCall, now, calls, runs, table>>

\* request_report: the POST of _make_request with the token in its header,
\* raise_for_status, the check of reportId, and start_time = time.time()
request_report ==
    /\ client.report.pc = "create"
    /\ client.report.stage = "http"
    /\ LET token == client.callers[1].ret
       IN  \/ client' = Logged(ReportRaised(client, Exc("HTTPStatusError", "request failed")),
                               Event("create", token, FALSE))
           \/ client' = Logged(ReportRaised(client, Exc("Exception", "Failed to get report ID")),
                               Event("create", token, TRUE))
           \/ client' = Logged([client EXCEPT !.report.pc = "check",
                                              !.report.stage = "",
                                              !.report.report_id = Some("r1"),
                                              !.report.start_time = client.time],
                               Event("create", token, TRUE))
    /\ UNCHANGED <<jobs, lastCall, now, calls, runs, table>>
\* a head of the poll loop that raises as soon as max_wait_seconds is reached
poll_check_reached ==
    /\ client.report.pc = "check"
    /\ LET elapsed == client.time - client.report.start_time
           cl == [client EXCEPT !.report.elapsed = elapsed]
       IN  client' = IF elapsed >= client.report.max_wait
                     THEN ReportRaised(cl, ReportTimeout)
                     ELSE [cl EXCEPT !.report.pc = "poll", !.report.stage = "token"]
    /\ UNCHANGED <<jobs, lastCall, now, calls, runs, table>>

\* the head of the poll loop: elapsed = time.time() - start_time and the
\* test against max_wait_seconds
poll_check ==
    /\ client.report.pc = "check"
    /\ LET elapsed == client.time - client.report.start_time
           cl == [client EXCEPT !.report.elapsed = elapsed]
       IN  client' = IF elapsed > client.report.max_wait
                     THEN ReportRaised(cl, ReportTimeout)
                     ELSE [cl EXCEPT !.report.pc = "poll", !.report.stage = "token"]
    /\ UNCHANGED <<jobs, lastCall, now, calls, runs, table>>

\* a branch that downloads on SUCCESS without looking at the location
StatusBranchNoLocation(cl, status, location) ==
    IF status = Some("SUCCESS")
    THEN [cl EXCEPT !.report.pc = "download", !.report.stage = ""]
    ELSE IF status \in {Some("FAILURE"), Some("FAILED")}
    THEN ReportRaised(cl, Exc("Exception", "Report failed"))
    ELSE [cl EXCEPT !.report.pc = "sleep", !.report.stage = ""]

\* a branch that raises on a status it does not know
StatusBranchStrict(cl, status, location) ==
    IF status = Some("SUCCESS")
    THEN IF location
         THEN [cl EXCEPT !.report.pc = "download", !.report.stage = ""]
         ELSE ReportRaised(cl, Exc("Exception", "no download location"))
    ELSE IF status \in {Some("FAILURE"), Some("FAILED")}
    THEN ReportRaised(cl, Exc("Exception", "Report failed"))
    ELSE IF status \in {Some("IN_PROGRESS"), Some("PENDING")}
    THEN [cl EXCEPT !.report.pc = "sleep", !.report.stage = ""]
    ELSE ReportRaised(cl, Exc("Exception", "Unknown report status"))

\* what fetch_keyword_report does with one status_data
StatusBranch(cl, status, location) ==
    IF status = Some("SUCCESS")
    THEN IF location
         THEN [cl EXCEPT !.report.pc = "download", !.report.stage = ""]
         ELSE ReportRaised(cl, Exc("Exception", "no download location"))
    ELSE IF status \in {Some("FAILURE"), Some("FAILED")}
    THEN ReportRaised(cl, Exc("Exception", "Report failed"))
    ELSE [cl EXCEPT !.report.pc = "sleep", !.report.stage = ""]

\* get_report_status: the GET of _make_request with the token in its header,
\* raise_for_status, and the branch on the status
get_report_status ==
    /\ client.report.pc = "poll"
    /\ client.report.stage = "http"
    /\ \E d \in CallDurations :
        /\ client.time + d <= MaxTokenTime
        /\ LET token == client.callers[1].ret
               cl == [client EXCEPT !.time = @ + d]
           IN  \/ client' = Logged(ReportRaised(cl, Exc("HTTPStatusError", "status failed")),
                                   Event("status", token, FALSE))
               \/ \E status \in StatusResponses :
                  \E location \in IF status = Some("SUCCESS") THEN BOOLEAN ELSE {FALSE} :
                    client' = Logged(StatusBranch([cl EXCEPT !.report.status_data =
                                                      Some([status |-> status,
                                                            location |-> location])],
                                                  status, location),
                                     Answered("status", token, status))
    /\ UNCHANGED <<jobs, lastCall, now, calls, runs, table>>

\* a sleep during which the clock does not advance
poll_sleep_no_time ==
    /\ client.report.pc = "sleep"
    /\ client' = Logged([client EXCEPT !.report.pc = "check"],
                        Event("sleep", None, TRUE))
    /\ UNCHANGED <<jobs, lastCall, now, calls, runs, table>>

\* await asyncio.sleep(poll_interval)
poll_sleep ==
    /\ client.report.pc = "sleep"
    /\ client.time + PollInterval <= MaxTokenTime
    /\ client' = Logged([client EXCEPT !.time = @ + PollInterval,
                                       !.report.pc = "check"],
                        Event("sleep", None, TRUE))
    /\ UNCHANGED <<jobs, lastCall, now, calls, runs, table>>

\* a download whose caller returns an empty list whatever was downloaded
download_report_dropped ==
    /\ client.report.pc = "download"
    /\ \/ client' = Logged(ReportRaised(client, Exc("HTTPStatusError", "download failed")),
                            Event("download", None, FALSE))
       \/ \E records \in 0..MaxRecords :
            client' = Logged([client EXCEPT !.report.pc = "returned",
                                           !.report.ret = Some(0)],
                            Answered("download", None, records))
    /\ UNCHANGED <<jobs, lastCall, now, calls, runs, table>>

\* download_report: self.http_client.get(report_url), which asks for no
\* token and sends no Authorization header, then raise_for_status
download_report ==
    /\ client.report.pc = "download"
    /\ \/ client' = Logged(ReportRaised(client, Exc("HTTPStatusError", "download failed")),
                            Event("download", None, FALSE))
       \/ \E records \in 0..MaxRecords :
            client' = Logged([client EXCEPT !.report.pc = "returned",
                                           !.report.ret = Some(records)],
                            Answered("download", None, records))
    /\ UNCHANGED <<jobs, lastCall, now, calls, runs, table>>

ReportStep ==
    \/ make_request_token
    \/ make_request_token_response
    \/ request_report
    \/ poll_check
    \/ get_report_status
    \/ poll_sleep
    \/ download_report

NextReport == fetch_keyword_report \/ ReportStep

SpecReport == Init /\ [][NextReport]_vars /\ WF_vars(ReportStep)

----------------------------------------------------------------------------
(* SpecToken: one caller asks the client for its access token again and    *)
(* again while time passes.                                                *)

TokenCall == get_access_token(1)

TokenResponse == token_response(1)

NextToken == time_passes \/ TokenCall \/ TokenResponse

SpecToken == Init /\ [][NextToken]_vars

----------------------------------------------------------------------------
(* SpecTokenRace: the tasks that share the client ask it for its access    *)
(* token concurrently, at one instant; with a token that is cached only    *)
(* for its last 300 seconds every call finds it expired.                   *)

RaceCall == \E c \in CallerIds : get_access_token(c)

RaceResponse == \E c \in CallerIds : token_response(c)

NextTokenRace == RaceCall \/ RaceResponse

SpecTokenRace == Init /\ [][NextTokenRace]_vars

----------------------------------------------------------------------------
(* Properties *)

\* the record the registry holds for job_id in dict d
JobOf(d, job_id) == DictGet(d, job_id)[1]

IsPrefix(s, t) == Len(s) <= Len(t) /\ SubSeq(t, 1, Len(s)) = s

\* the latest registry call was an update of a job the registry held
UpdatedExisting == lastCall.op = "update" /\ lastCall.before # None

\* C1: once an update has set a job's status to completed, failed or timeout,
\* no later update moves the job out of the terminal statuses.
C1_TerminalNeverLeft ==
    (UpdatedExisting /\ lastCall.before[1].status \in TerminalStatuses)
        => JobOf(jobs, lastCall.job_id).status \in TerminalStatuses

\* C2: create on a job id the registry already holds leaves the existing
\* record as it was.
C2_CreateNeverOverwrites ==
    (lastCall.op = "create" /\ lastCall.before # None)
        => DictGet(jobs, lastCall.job_id) = lastCall.before

\* C3: an update of a job id the registry does not hold returns None, creates
\* no record and changes no record, whatever fields it carries.
C3_UpdateUnknownId ==
    [][(lastCall'.op = "update" /\ lastCall'.before = None)
        => /\ lastCall'.ret = None
           /\ ~HasJob(jobs', lastCall'.job_id)
           /\ jobs' = jobs]_vars

C3_Witness ==
    /\ lastCall.op = "update"
    /\ lastCall.before = None
    /\ lastCall.ret = None
    /\ lastCall.status # None
    /\ lastCall.progress # None
    /\ lastCall.records_fetched # None
    /\ lastCall.error # None
    /\ Len(jobs) = 1

\* C4: every job's progress lies in 0..100, and an update that carries a
\* progress stores 0 for a value below 0, 100 for a value above 100, and the
\* value itself otherwise.
C4_ProgressClamped ==
    /\ \A i \in 1..Len(jobs) : jobs[i].progress >= 0 /\ jobs[i].progress <= 100
    /\ (UpdatedExisting /\ lastCall.progress # None)
        => JobOf(jobs, lastCall.job_id).progress =
              IF lastCall.progress[1] < 0 THEN 0
              ELSE IF lastCall.progress[1] > 100 THEN 100
              ELSE lastCall.progress[1]

C4_Witness ==
    /\ UpdatedExisting
    /\ lastCall.progress = Some(-1)
    /\ lastCall.before[1].progress = 50
    /\ JobOf(jobs, lastCall.job_id).progress = 0

\* C5: within a pipeline run no update lowers the job's progress below the
\* value it had before the update.
C5_ProgressMonotonic ==
    UpdatedExisting
        => JobOf(jobs, lastCall.job_id).progress >= lastCall.before[1].progress

C5_Witness ==
    /\ UpdatedExisting
    /\ lastCall.before[1].progress = 80
    /\ JobOf(jobs, lastCall.job_id).progress = 100
    /\ \E j \in 1..Len(runs) :
          /\ runs[j].pc = "done"
          /\ JobOf(jobs, j).status = FAILED
          /\ JobOf(jobs, j).progress = 10

\* C6: an update that carries an error appends exactly that message at the
\* end of the job's error list, an update without an error leaves the list as
\* it was, and the list before the update is a prefix of the list after it.
C6_ErrorsAppendOnly ==
    UpdatedExisting
        => LET old == lastCall.before[1].errors
               new == JobOf(jobs, lastCall.job_id).errors
           IN  /\ lastCall.error # None => new = old \o <<lastCall.error[1]>>
               /\ lastCall.error = None => new = old
               /\ IsPrefix(old, new)

C6_Witness ==
    /\ UpdatedExisting
    /\ lastCall.error = Some("e2")
    /\ lastCall.before[1].errors = <<"e1">>
    /\ JobOf(jobs, lastCall.job_id).errors = <<"e1", "e2">>

\* C7: an update that sets a terminal status leaves the job with a completion
\* timestamp, and when the job already had one, the new one is not earlier.
C7_CompletionStamped ==
    (UpdatedExisting /\ lastCall.status # None
                     /\ lastCall.status[1] \in TerminalStatuses)
        => LET old == lastCall.before[1].completed_at
               new == JobOf(jobs, lastCall.job_id).completed_at
           IN  /\ new # None
               /\ old # None => new[1] >= old[1]

C7_Witness ==
    /\ UpdatedExisting
    /\ lastCall.status = Some(TIMEOUT)
    /\ lastCall.before[1].status = COMPLETED
    /\ lastCall.before[1].completed_at = Some(0)
    /\ JobOf(jobs, lastCall.job_id).completed_at = Some(1)

\* C8: right after create on a fresh id, get returns a pending record with
\* progress 0, no records processed, no errors, no completion timestamp, and
\* the kind and the metadata that were supplied.
C8_CreatedPending ==
    (lastCall.op = "create" /\ lastCall.before = None)
        => /\ DictGet(jobs, lastCall.job_id) # None
           /\ LET job == JobOf(jobs, lastCall.job_id)
              IN  /\ job.job_id = lastCall.job_id
                  /\ job.status = PENDING
                  /\ job.progress = 0
                  /\ job.records_fetched = 0
                  /\ job.errors = <<>>
                  /\ job.completed_at = None
                  /\ job.job_type = lastCall.job_type
                  /\ job.metadata = IF lastCall.metadata = None THEN EmptyDict
                                    ELSE lastCall.metadata[1]

C8_Witness ==
    /\ lastCall.op = "create"
    /\ lastCall.before = None
    /\ lastCall.job_type = "import"
    /\ lastCall.metadata = Some([profile_id |-> "p1"])
    /\ Len(jobs) = 2
    /\ JobOf(jobs, lastCall.job_id).status = PENDING
    /\ JobOf(jobs, lastCall.job_id).metadata = [profile_id |-> "p1"]

\* the ids a cleanup removed
Removed == Keys(lastCall.before) \ Keys(jobs)

\* how many other jobs of dict d started at the time of d[i] or later
StartedAtOrAfter(d, i) ==
    Cardinality({k \in 1..Len(d) : k # i /\ d[k].started_at >= d[i].started_at})

\* how many jobs of dict d started later than d[i]
StartedAfter(d, i) ==
    Cardinality({k \in 1..Len(d) : d[k].started_at > d[i].started_at})

\* C9: cleanup(keep_last_n) removes no job that is pending, in_progress or
\* timeout, removes no job unless at least keep_last_n other jobs started at
\* its start time or later, and leaves every record it keeps unchanged.
C9_CleanupKeeps ==
    lastCall.op = "cleanup"
        => LET old == lastCall.before
           IN  /\ \A i \in 1..Len(old) :
                    old[i].job_id \in Removed
                        => /\ old[i].status \notin {PENDING, IN_PROGRESS, TIMEOUT}
                           /\ StartedAtOrAfter(old, i) >= lastCall.keep_last_n
               /\ jobs = SelectSeq(old, LAMBDA j : j.job_id \notin Removed)

C9_Witness ==
    /\ lastCall.op = "cleanup"
    /\ lastCall.keep_last_n = 1
    /\ Len(lastCall.before) = 3
    /\ lastCall.ret = 1
    /\ Len(jobs) = 2
    /\ jobs[1].status = TIMEOUT
    /\ jobs[2].status = COMPLETED
    /\ jobs[1].started_at < jobs[2].started_at

\* the example: the sweep with keep_last_n = 2 of five jobs, three completed
\* and two pending
Example ==
    /\ lastCall.op = "cleanup"
    /\ lastCall.keep_last_n = 2
    /\ Len(lastCall.before) = 5
    /\ Cardinality({i \in 1..5 : lastCall.before[i].status = COMPLETED}) = 3
    /\ Cardinality({i \in 1..5 : lastCall.before[i].status = PENDING}) = 2

\* C10 as stated: in the example the sweep removes exactly one job, the
\* oldest completed one, and both pending jobs stay.
C10_RemovesOnlyOldestCompleted ==
    Example
        => LET old == lastCall.before
           IN  /\ Cardinality(Removed) = 1
               /\ \A i \in 1..5 :
                    old[i].job_id \in Removed
                        => /\ old[i].status = COMPLETED
                           /\ \A k \in 1..5 :
                                old[k].status = COMPLETED
                                    => old[k].started_at >= old[i].started_at
               /\ \A i \in 1..5 :
                    old[i].status = PENDING => DictGet(jobs, old[i].job_id) = Some(old[i])

\* C10 amended: in the example the sweep removes only completed jobs: every
\* completed job that two or more jobs started after, and none unless two
\* other jobs started at its start time or later.  That is one, two or three
\* jobs, and exactly one, the oldest completed job, when each pending job is
\* older than two completed ones.  Both pending jobs stay.
C10_RemovesCompletedBeyondTwo ==
    Example
        => LET old == lastCall.before
               completed == {i \in 1..5 : old[i].status = COMPLETED}
               pending == {i \in 1..5 : old[i].status = PENDING}
           IN  /\ \A i \in 1..5 : old[i].job_id \in Removed => i \in completed
               /\ \A i \in completed :
                    /\ StartedAfter(old, i) >= 2 => old[i].job_id \in Removed
                    /\ old[i].job_id \in Removed => StartedAtOrAfter(old, i) >= 2
               /\ Cardinality(Removed) \in 1..3
               /\ lastCall.ret = Cardinality(Removed)
               /\ (\A p \in pending :
                     Cardinality({c \in completed :
                                    old[c].started_at > old[p].started_at}) >= 2)
                    => /\ Cardinality(Removed) = 1
                       /\ \A i \in completed :
                            old[i].job_id \in Removed
                                => \A k \in completed :
                                      old[k].started_at >= old[i].started_at
               /\ \A i \in pending : DictGet(jobs, old[i].job_id) = Some(old[i])

C10_Witness ==
    /\ Example
    /\ lastCall.ret = 1
    /\ Len(jobs) = 4
    /\ \A i \in 1..5 : lastCall.before[i].started_at > 0 => lastCall.before[i].status = COMPLETED
    /\ \E i \in 1..5 : lastCall.before[i].status = PENDING /\ lastCall.before[i].started_at = 0

\* C11: after a sweep with keep_last_n >= 0 every completed or failed job
\* that is left has fewer than keep_last_n jobs started after it, the value
\* returned is the size before minus the size after, and a registry of at
\* most keep_last_n jobs is left as it was with 0 returned.
C11_CleanupBound ==
    (lastCall.op = "cleanup" /\ lastCall.keep_last_n >= 0)
        => LET old == lastCall.before
           IN  /\ \A i \in 1..Len(old) :
                    (old[i].status \in {COMPLETED, FAILED} /\ old[i].job_id \in Keys(jobs))
                        => StartedAfter(old, i) < lastCall.keep_last_n
               /\ \A k \in 1..Len(jobs) : DictGet(old, jobs[k].job_id) = Some(jobs[k])
               /\ lastCall.ret = Len(old) - Len(jobs)
               /\ Len(old) <= lastCall.keep_last_n => (jobs = old /\ lastCall.ret = 0)

C11_Witness ==
    /\ lastCall.op = "cleanup"
    /\ lastCall.keep_last_n = 1
    /\ Len(lastCall.before) = 3
    /\ \E i \in 1..3 : lastCall.before[i].status = FAILED /\ lastCall.before[i].job_id \notin Keys(jobs)
    /\ \E i \in 1..3 : lastCall.before[i].status = COMPLETED /\ lastCall.before[i].job_id \notin Keys(jobs)
    /\ lastCall.ret = 2
    /\ Len(jobs) = 1

\* C12: list_jobs returns exactly the records of the registry whose kind is
\* the one asked for (every record when the kind is None or empty), each
\* once, no entry started later than an entry before it, and the registry
\* is left as it was.
C12_ListFiltersAndSorts ==
    lastCall.op = "list"
        => LET ret == lastCall.ret
               all == lastCall.job_type \in {None, Some("")}
               wanted == {i \in 1..Len(jobs) :
                            all \/ jobs[i].job_type = lastCall.job_type[1]}
           IN  /\ jobs = lastCall.before
               /\ Len(ret) = Cardinality(wanted)
               /\ \A i \in wanted : \E k \in 1..Len(ret) : ret[k] = jobs[i]
               /\ \A k \in 1..Len(ret) : \E i \in wanted : ret[k] = jobs[i]
               /\ \A k, l \in 1..Len(ret) :
                    k < l => ret[k].started_at >= ret[l].started_at

C12_Witness ==
    /\ lastCall.op = "list"
    /\ lastCall.job_type = Some("import")
    /\ Len(jobs) = 3
    /\ jobs[1].job_type = "import" /\ jobs[2].job_type = "fetch" /\ jobs[3].job_type = "import"
    /\ jobs[1].started_at < jobs[3].started_at
    /\ lastCall.ret = <<jobs[3], jobs[1]>>

\* C13: every pipeline run that was started ends, with its job in a terminal
\* state; this includes the fetch run whose report stays in progress at
\* every poll.
C13_RunsEnd ==
    \A j \in PipeIds :
        (j <= Len(runs))
            ~> (/\ j <= Len(runs)
                /\ runs[j].pc = "done"
                /\ JobOf(jobs, j).status \in TerminalStatuses)

C13_Witness ==
    /\ Len(runs) = 1
    /\ runs[1].kind = "fetch"
    /\ runs[1].pc = "done"
    /\ runs[1].exc = Some(ReportTimeout)
    /\ runs[1].elapsed > MaxWaitSeconds
    /\ JobOf(jobs, 1).status \in TerminalStatuses

\* C14: a fetch run that has made its first update and no other has its job
\* in_progress at progress 0, and a fetch run that ended without an
\* exception has its job completed at progress 100 with records_fetched
\* equal to the number of raw records fetched, however many of them the
\* parse loop dropped.
C14_FetchCompletes ==
    \A j \in 1..Len(runs) :
        runs[j].kind = "fetch"
            => /\ runs[j].pc = "request"
                    => /\ JobOf(jobs, j).status = IN_PROGRESS
                       /\ JobOf(jobs, j).progress = 0
               /\ (runs[j].pc = "done" /\ runs[j].exc = None)
                    => /\ runs[j].parsed <= runs[j].records
                       /\ runs[j].persisted = runs[j].parsed
                       /\ JobOf(jobs, j).status = COMPLETED
                       /\ JobOf(jobs, j).progress = 100
                       /\ JobOf(jobs, j).records_fetched = runs[j].records
                       /\ JobOf(jobs, j).errors = <<>>

C14_Witness ==
    \E j \in 1..Len(runs) :
        /\ runs[j].kind = "fetch"
        /\ runs[j].pc = "done"
        /\ runs[j].exc = None
        /\ runs[j].records = 2
        /\ runs[j].parsed = 1
        /\ JobOf(jobs, j).status = COMPLETED
        /\ JobOf(jobs, j).records_fetched = 2

\* C15: a fetch run that ended on the TimeoutError of the report poll loop
\* has its job in status timeout, with an error message appended.
C15_ReportTimeoutEndsTimeout ==
    \A j \in 1..Len(runs) :
        (runs[j].kind = "fetch" /\ runs[j].pc = "done" /\ runs[j].exc = Some(ReportTimeout))
            => /\ JobOf(jobs, j).status = TIMEOUT
               /\ JobOf(jobs, j).errors = <<"Amazon Ads API report timed out">>

\* C16: a run that raised an exception other than the report TimeoutError is
\* in its `except Exception` clause or past it, and once it has ended its
\* job is failed and the error list holds the exception's message: as it
\* is for an import, behind the name of the exception's class for a fetch.
C16_ExceptionEndsFailed ==
    \A j \in 1..Len(runs) :
        (runs[j].exc # None /\ runs[j].exc[1].type # "TimeoutError")
            => /\ runs[j].pc \in {"failed", "done"}
               /\ runs[j].pc = "done"
                    => /\ JobOf(jobs, j).status = FAILED
                       /\ JobOf(jobs, j).errors =
                            IF runs[j].kind = "import"
                            THEN <<runs[j].exc[1].msg>>
                            ELSE <<runs[j].exc[1].type \o ": " \o runs[j].exc[1].msg>>

C16_Witness ==
    /\ Len(runs) = 2
    /\ runs[1].kind = "fetch" /\ runs[2].kind = "import"
    /\ runs[1].pc = "done" /\ runs[2].pc = "done"
    /\ JobOf(jobs, 1).status = FAILED
    /\ JobOf(jobs, 1).errors = <<"Exception: store failed">>
    /\ JobOf(jobs, 2).status = FAILED
    /\ JobOf(jobs, 2).errors = <<"Unsupported file type">>

\* C17: an import run whose file gave no valid row and that has ended has
\* its job completed at progress 100 with records_fetched 0; before its
\* last update the job is in_progress, and at no point failed.
C17_EmptyImportCompletes ==
    \A j \in 1..Len(runs) :
        (runs[j].kind = "import" /\ runs[j].exc = None /\ runs[j].records = 0)
            => /\ runs[j].pc = "done"
                    => /\ JobOf(jobs, j).status = COMPLETED
                       /\ JobOf(jobs, j).progress = 100
                       /\ JobOf(jobs, j).records_fetched = 0
               /\ JobOf(jobs, j).status # FAILED

C17_Witness ==
    \E j \in 1..Len(runs) :
        /\ runs[j].kind = "import"
        /\ runs[j].pc = "done"
        /\ runs[j].exc = None
        /\ runs[j].records = 0
        /\ JobOf(jobs, j).status = COMPLETED
        /\ JobOf(jobs, j).errors = <<"No valid records found in file">>

\* C18: an import run that parsed at least one row, stored without an
\* exception and has ended has its job completed at progress 100 with
\* records_fetched equal to the number of records parsed.
C18_ImportCountsParsed ==
    \A j \in 1..Len(runs) :
        (/\ runs[j].kind = "import"
         /\ runs[j].pc = "done"
         /\ runs[j].exc = None
         /\ runs[j].records >= 1)
            => /\ JobOf(jobs, j).status = COMPLETED
               /\ JobOf(jobs, j).progress = 100
               /\ JobOf(jobs, j).records_fetched = runs[j].records

\* C19: every job an endpoint has scheduled has its record in the registry;
\* until the endpoint has returned its response that record is pending and
\* the pipeline has taken no step; and a status query for a job whose
\* endpoint has returned finds the record.
C19_SubmitCreatesFirst ==
    /\ [](\A j \in 1..Len(runs) :
            /\ HasJob(jobs, j)
            /\ ~runs[j].responded
                  => /\ runs[j].pc = "start"
                     /\ JobOf(jobs, j).status = PENDING)
    /\ [][\A j \in 1..Len(runs) :
            (/\ runs[j].responded
             /\ lastCall' # lastCall
             /\ lastCall'.op = "get"
             /\ lastCall'.job_id = j)
                => lastCall'.ret = Some(JobOf(jobs, j))]_vars

C19_Witness ==
    /\ Len(runs) = 2
    /\ runs[1].responded
    /\ ~runs[2].responded
    /\ lastCall.op = "get"
    /\ lastCall.job_id = 1
    /\ lastCall.ret = Some(JobOf(jobs, 1))
    /\ JobOf(jobs, 1).status = IN_PROGRESS
    /\ JobOf(jobs, 2).status = PENDING

\* C20: a call of _get_access_token that finds a cached token and a time
\* more than 300 seconds before its expiry returns that token, posts no
\* request and leaves token and expiry as they were; any other call posts
\* exactly one request, and when that request succeeds the call returns the
\* new token and the client holds it with the expiry the response gave.
C20_TokenCache ==
    \A c \in CallerIds :
        client.callers[c].entry # None
            => LET call == client.callers[c]
                   entry == call.entry[1]
               IN  IF /\ entry.access_token # None
                      /\ entry.time < entry.token_expires_at - 300
                   THEN /\ call.pc = "returned"
                        /\ call.ret = entry.access_token
                        /\ client.posts = entry.posts
                        /\ client.access_token = entry.access_token
                        /\ client.token_expires_at = entry.token_expires_at
                   ELSE /\ client.posts = entry.posts + 1
                        /\ call.pc = "post"
                              => /\ client.access_token = entry.access_token
                                 /\ client.token_expires_at = entry.token_expires_at
                        /\ call.pc = "returned"
                              => /\ call.ret # entry.access_token
                                 /\ client.access_token = call.ret
                                 /\ client.token_expires_at =
                                      call.response[1].time +
                                        (IF call.response[1].expires_in = None
                                         THEN 3600
                                         ELSE call.response[1].expires_in[1])

C20_Witness ==
    /\ client.callers[1].pc = "returned"
    /\ client.callers[1].entry[1].access_token = Some(1)
    /\ client.callers[1].entry[1].token_expires_at = 3600
    /\ client.callers[1].entry[1].time = 3300
    /\ client.callers[1].ret = Some(2)
    /\ client.access_token = Some(2)
    /\ client.posts = 2

\* C21: at no time do two callers of _get_access_token have a token request
\* in flight.
C21_OneRefreshInFlight ==
    Cardinality({c \in CallerIds : client.callers[c].pc = "post"}) <= 1

\* C22: a call of _get_access_token that failed on the answer of the token
\* endpoint returned no token and left the cached token and the cached
\* expiry as it found them.
C22_FailedRefreshKeepsCache ==
    \A c \in CallerIds :
        client.callers[c].pc = "raised"
            => /\ client.callers[c].ret = None
               /\ client.access_token = client.callers[c].entry[1].access_token
               /\ client.token_expires_at = client.callers[c].entry[1].token_expires_at

\* the log of the call of fetch_keyword_report, and the places of its entries
Log == client.report.log

Events(ev) == {i \in 1..Len(Log) : Log[i].ev = ev}

Requests == Events("create") \cup Events("status") \cup Events("download")

\* C23: fetch_keyword_report sends one report request and sends it before
\* any other request; it asks for the status only once the report request
\* gave a report id; it downloads only after a status response that said
\* SUCCESS and carried a location, and downloads at most once.
C23_RequestOrder ==
    /\ Cardinality(Events("create")) <= 1
    /\ \A i \in Requests : \A k \in Events("create") : k <= i
    /\ client.report.pc = "returned" => Cardinality(Events("create")) = 1
    /\ \A i \in Events("status") :
          /\ client.report.report_id # None
          /\ \E k \in Events("create") : k < i /\ Log[k].ok
    /\ \A i \in Events("download") :
          /\ \E k \in Events("status") :
                k < i /\ Log[k].data = Some(Some("SUCCESS"))
          /\ client.report.status_data =
                Some([status |-> Some("SUCCESS"), location |-> TRUE])
    /\ Cardinality(Events("download")) <= 1

C23_Witness ==
    /\ client.report.pc = "returned"
    /\ Cardinality(Events("status")) >= 2
    /\ Cardinality(Events("download")) = 1

\* C24: a step of fetch_keyword_report that failed is the last thing the
\* call did: it raised, and no request, token request or sleep follows it.
\* A report request that failed or gave no report id is followed by no
\* status request and no download, and once the call has raised, the client
\* sends nothing and its token cache stays as it is.
C24_NoRetry ==
    /\ [](\A i \in 1..Len(Log) :
            ~Log[i].ok => i = Len(Log) /\ client.report.pc = "raised")
    /\ [](client.report.exc \in {Some(Exc("HTTPStatusError", "request failed")),
                                 Some(Exc("Exception", "Failed to get report ID"))}
            => Events("status") = {} /\ Events("download") = {})
    /\ [][client.report.pc = "raised" => client' = client]_vars

C24_Witness ==
    /\ client.report.pc = "raised"
    /\ Cardinality(Events("status")) >= 2
    /\ Log[Len(Log)].ev = "status"
    /\ ~Log[Len(Log)].ok

\* the status responses so far all said IN_PROGRESS or PENDING
AllInProgress ==
    \A i \in Events("status") :
        Log[i].ok => Log[i].data \in {Some(Some("IN_PROGRESS")), Some(Some("PENDING"))}

\* C25: fetch_keyword_report raises TimeoutError only at a check that found
\* more than max_wait_seconds elapsed since polling began, and sends a status
\* request only after a check that found no more than that; a call that has
\* seen only in-progress statuses has returned no records, and has either
\* raised TimeoutError or some other failure of a request, or is still in
\* the loop; and a call in the loop always leaves it: it raises or returns.
C25_TimeoutWhenNeverReady ==
    /\ [](client.report.exc = Some(ReportTimeout)
            => /\ client.report.elapsed > client.report.max_wait
               /\ client.report.elapsed = client.time - client.report.start_time
               /\ client.report.ret = None)
    /\ [](client.report.pc = "poll"
            => client.report.elapsed <= client.report.max_wait)
    /\ [](AllInProgress
            => /\ client.report.ret = None
               /\ client.report.pc # "download"
               /\ client.report.pc = "raised" /\ Log[Len(Log)].ok
                                               /\ Log[Len(Log)].ev \in {"status", "sleep"}
                    => client.report.exc = Some(ReportTimeout))
    /\ (client.report.pc \in {"check", "poll", "sleep"})
          ~> (client.report.pc \in {"raised", "returned"})
    /\ (client.report.pc = "check" /\ [](AllInProgress /\ \A i \in 1..Len(Log) : Log[i].ok))
          ~> (client.report.exc = Some(ReportTimeout))

C25_Witness ==
    /\ client.report.exc = Some(ReportTimeout)
    /\ Cardinality(Events("status")) >= 2
    /\ AllInProgress

RemoteFailure(j) == runs[j].exc = Some(Exc("Exception", "Report failed"))

\* C27: a fetch run whose status request was answered FAILURE or FAILED is
\* out of the poll loop for good: it is in its `except Exception` clause or
\* past it, never again at a status request, a sleep or the download, and
\* it has no records.  It ends, and when it has ended its job is failed,
\* not timeout, with the failure as its error.
C27_RemoteFailureEndsFailed ==
    /\ [](\A j \in 1..Len(runs) :
            RemoteFailure(j)
                => /\ runs[j].pc \in {"failed", "done"}
                   /\ runs[j].records = 0
                   /\ JobOf(jobs, j).status # TIMEOUT
                   /\ runs[j].pc = "done"
                        => /\ JobOf(jobs, j).status = FAILED
                           /\ JobOf(jobs, j).errors = <<"Exception: Report failed">>)
    /\ [][\A j \in 1..Len(runs) :
            RemoteFailure(j) => runs'[j].pc \in {"failed", "done"}]_vars
    /\ \A j \in PipeIds :
          (j <= Len(runs) /\ RemoteFailure(j))
              ~> (/\ j <= Len(runs)
                  /\ runs[j].pc = "done"
                  /\ JobOf(jobs, j).status = FAILED)

C27_Witness ==
    /\ Len(runs) = 1
    /\ RemoteFailure(1)
    /\ runs[1].elapsed >= PollInterval
    /\ runs[1].pc = "done"
    /\ JobOf(jobs, 1).status = FAILED

\* the places of the status responses whose status is missing or is none of
\* SUCCESS, FAILURE, FAILED, IN_PROGRESS, PENDING
UnknownStatuses ==
    {i \in Events("status") : Log[i].data \in {Some(None), Some(Some("UNKNOWN"))}}

\* C28: after a status response with a missing or unknown status the call
\* does what it does after IN_PROGRESS: it sleeps one poll interval, then
\* makes the elapsed-time check and, unless that raises TimeoutError, asks
\* for a token and for the status again.  While such a response is the last
\* the call got, the only exception the call can have raised is the
\* TimeoutError of the check or that of the token request before the next
\* poll.
C28_UnknownStatusPollsAgain ==
    \A i \in UnknownStatuses :
        /\ i = Len(Log) => client.report.pc = "sleep" /\ client.report.exc = None
        /\ i < Len(Log)
             => /\ Log[i + 1] = Event("sleep", None, TRUE)
                /\ i + 1 = Len(Log)
                     => \/ client.report.pc \in {"check", "poll"}
                        \/ /\ client.report.exc = Some(ReportTimeout)
                           /\ client.report.elapsed > client.report.max_wait
                /\ i + 1 < Len(Log) => Log[i + 2].ev = "get_token"
                /\ i + 2 < Len(Log) => Log[i + 3].ev = "status"

C28_Witness ==
    /\ \E i \in UnknownStatuses : Log[i].data = Some(None) /\ i + 3 \in Events("status")
    /\ \E i \in UnknownStatuses : Log[i].data = Some(Some("UNKNOWN"))
                                   /\ i + 1 = Len(Log)
                                   /\ client.report.exc = Some(ReportTimeout)

\* the first status request was answered SUCCESS with a download location
FirstPollSucceeded ==
    /\ Events("status") # {}
    /\ \A i \in Events("status") :
          (\A k \in Events("status") : i <= k) => Log[i].data = Some(Some("SUCCESS"))
    /\ client.report.status_data = Some([status |-> Some("SUCCESS"), location |-> TRUE])

\* C29: when the first status request is answered SUCCESS with a location,
\* the call sends no second status request and never sleeps; the download
\* is all that is left to it, and when it has returned it has returned the
\* records of the download, which was its last step.
C29_ImmediateSuccess ==
    FirstPollSucceeded
        => /\ Cardinality(Events("status")) = 1
           /\ Events("sleep") = {}
           /\ client.report.pc \in {"download", "returned", "raised"}
           /\ client.report.pc = "download" => Log[Len(Log)].ev = "status"
           /\ client.report.pc = "raised"
                => Log[Len(Log)] = Event("download", None, FALSE)
           /\ client.report.pc = "returned"
                => /\ Log[Len(Log)].ev = "download"
                   /\ Log[Len(Log) - 1].ev = "status"
                   /\ client.report.ret # None
                   /\ client.report.ret = Log[Len(Log)].data

C29_Witness ==
    /\ FirstPollSucceeded
    /\ client.report.pc = "returned"
    /\ client.report.ret = Some(MaxRecords)

\* C30: every request of fetch_keyword_report, the report request, each
\* status request and the download, comes right after a call of
\* _get_access_token that returned a token, and carries that token.
C30_EveryRequestAuthenticated ==
    \A i \in Requests :
        /\ i > 1
        /\ Log[i - 1].ev = "get_token"
        /\ Log[i - 1].ok
        /\ Log[i].token # None
        /\ Log[i].token = Log[i - 1].token

\* the time at which the call of caller c returned: that of the response
\* when it made a request, that of its entry when it did not
ReturnTime(c) ==
    IF client.callers[c].response # None
    THEN client.callers[c].response[1].time
    ELSE client.callers[c].entry[1].time

\* C39: a token that _get_access_token has returned was, at the time of the
\* return, more than 300 seconds before the expiry the client holds for it.
C39_ReturnedTokenUsable ==
    client.callers[1].pc = "returned"
        => ReturnTime(1) < client.token_expires_at - ExpiryMargin

\* C39 as the code has it: a token returned from the cache was more than 300
\* seconds before its expiry when it was returned; a token returned from a
\* token request was so exactly when the lifetime the response gave it,
\* 3600 seconds when it gave none, is more than 300 seconds.
C39_CachedTokenUsable ==
    client.callers[1].pc = "returned"
        => LET call == client.callers[1]
           IN  /\ call.ret = client.access_token
               /\ call.response = None
                    => ReturnTime(1) < client.token_expires_at - ExpiryMargin
               /\ call.response # None
                    => (ReturnTime(1) < client.token_expires_at - ExpiryMargin
                          <=> (\/ call.response[1].expires_in = None
                               \/ call.response[1].expires_in[1] > ExpiryMargin))

C39_Witness ==
    /\ client.callers[1].pc = "returned"
    /\ client.callers[1].response # None
    /\ client.callers[1].response[1].expires_in = Some(300)
    /\ client.callers[1].entry[1].access_token # None

\* C40: a job of the registry has a completed_at exactly when its status is
\* completed, failed or timeout.
C40_CompletedAtIffTerminal ==
    \A i \in 1..Len(jobs) :
        jobs[i].completed_at # None <=> jobs[i].status \in TerminalStatuses

\* C37: an update of a job the registry holds stores the status and the
\* records_fetched it carries, its progress brought into 0..100, and its
\* error at the end of the error list; a field it does not carry stays as it
\* was, completed_at too when no status is carried; job_id, job_type,
\* started_at and metadata stay as they were; the update returns the record
\* it stored, and a get_job of that id that follows returns that record.
C37_UpdateFrame ==
    /\ [](UpdatedExisting
            => LET old == lastCall.before[1]
                   new == JobOf(jobs, lastCall.job_id)
               IN  /\ lastCall.ret = Some(new)
                   /\ new.status = IF lastCall.status = None THEN old.status
                                   ELSE lastCall.status[1]
                   /\ lastCall.status = None => new.completed_at = old.completed_at
                   /\ new.progress = IF lastCall.progress = None THEN old.progress
                                     ELSE IF lastCall.progress[1] \in 0..100
                                     THEN lastCall.progress[1]
                                     ELSE Clamp(lastCall.progress[1])
                   /\ new.records_fetched =
                        IF lastCall.records_fetched = None THEN old.records_fetched
                        ELSE lastCall.records_fetched[1]
                   /\ new.errors = IF lastCall.error = None THEN old.errors
                                   ELSE Append(old.errors, lastCall.error[1])
                   /\ new.job_id = old.job_id
                   /\ new.job_type = old.job_type
                   /\ new.started_at = old.started_at
                   /\ new.metadata = old.metadata)
    /\ [][(UpdatedExisting /\ lastCall'.op = "get"
                           /\ lastCall'.job_id = lastCall.job_id)
            => lastCall'.ret = lastCall.ret]_vars

C37_Witness ==
    /\ lastCall.op = "get"
    /\ lastCall.ret # None
    /\ lastCall.ret[1].status = PENDING
    /\ lastCall.ret[1].completed_at = None
    /\ lastCall.ret[1].progress = 50
    /\ lastCall.ret[1].records_fetched = 3
    /\ lastCall.ret[1].errors = <<>>
    /\ calls = 3

\* a table without its updated_at column
Logical(rows) ==
    {[keyword_id |-> row.keyword_id, profile_id |-> row.profile_id,
      date |-> row.date, value |-> row.value, created_at |-> row.created_at] :
     row \in rows}

\* the keys under which upsert_performance(records, profile_id) stores: that
\* of every record, with the profile_id given; none when none is given,
\* the records having no profile_id of their own
KeysOf(records, profile_id) ==
    IF profile_id = None THEN {}
    ELSE {<<records[i].keyword_id, profile_id[1], records[i].date>> :
          i \in 1..Len(records)}

\* the last record of the batch that is stored under key
LastWith(records, key) ==
    CHOOSE i \in 1..Len(records) :
        /\ <<records[i].keyword_id, key[2], records[i].date>> = key
        /\ \A k \in 1..Len(records) :
              <<records[k].keyword_id, key[2], records[k].date>> = key => k <= i

\* C31: the table never holds two rows with the same (keyword_id,
\* profile_id, date).  A call of upsert_performance that returned left the
\* table with the keys it had and the keys of the records of the batch: a
\* key the table had keeps its one row, with its created_at and with the
\* metrics of the last record of the batch stored under it, or with its old
\* metrics when the batch has none; no row is removed.  A call that follows
\* a call with the same batch and the same profile_id leaves the table with
\* the rows it had, up to their updated_at.
C31_UpsertIdempotent ==
    /\ [](\A r1, r2 \in table : Key(r1) = Key(r2) => r1 = r2)
    /\ []((lastCall.op = "upsert" /\ lastCall.ret # None)
            => LET keys == KeysOf(lastCall.records, lastCall.profile_id)
               IN  /\ {Key(row) : row \in table}
                        = {Key(row) : row \in lastCall.before} \cup keys
                   /\ Cardinality(table)
                        = Cardinality(lastCall.before)
                            + Cardinality(keys \ {Key(row) : row \in lastCall.before})
                   /\ \A row \in table :
                        /\ Key(row) \in keys
                             => row.value =
                                  lastCall.records[LastWith(lastCall.records, Key(row))].value
                        /\ Key(row) \notin keys => row \in lastCall.before
                        /\ \A old \in lastCall.before :
                              Key(old) = Key(row) => row.created_at = old.created_at)
    /\ [][(/\ lastCall.op = "upsert" /\ lastCall.ret # None
           /\ lastCall'.op = "upsert" /\ lastCall'.ret # None
           /\ lastCall'.records = lastCall.records
           /\ lastCall'.profile_id = lastCall.profile_id)
            => Logical(table') = Logical(table)]_vars

C31_Witness ==
    /\ lastCall.op = "upsert"
    /\ lastCall.ret = Some(2)
    /\ Len(lastCall.records) = 2
    /\ lastCall.records[1].keyword_id # lastCall.records[2].keyword_id
    /\ Cardinality(table) = 3
    /\ Cardinality(lastCall.before) = 3
    /\ Logical(table) = Logical(lastCall.before)
    /\ table # lastCall.before

\* C34: whenever fetch_keyword_report sends a status request, the time
\* elapsed since polling began is no more than max_wait_seconds.
C34_NoPollAfterDeadline ==
    (client.report.pc = "poll" /\ client.report.stage = "http")
        => client.time - client.report.start_time <= client.report.max_wait

\* C32: a step that changes a job record is a registry operation that
\* changes records, create_job, update_job or cleanup_old_jobs, each made
\* under the registry lock: no step changes a record while the operation it
\* makes is a get_job, or while it makes none.
C32_OnlyRegistryMutates ==
    [][jobs' # jobs
        => /\ lastCall'.op \in {"create", "update", "cleanup"}
           /\ lastCall'.op = "create"
                => jobs' = DictSet(jobs, lastCall'.job_id, lastCall'.ret[1])
           /\ lastCall'.op = "update"
                => jobs' = DictSet(jobs, lastCall'.job_id, lastCall'.ret[1])]_vars

\* C33: a job whose run has not made its first update is pending; a step
\* that changes a job's status takes it from pending to in_progress or from
\* in_progress to completed, failed or timeout, so that a terminal status is
\* never left and pending is never entered; and a job whose run has ended
\* is in a terminal status.
C33_StatusSequence ==
    /\ [](\A j \in 1..Len(runs) :
            /\ runs[j].pc = "start" => JobOf(jobs, j).status = PENDING
            /\ runs[j].pc = "done" => JobOf(jobs, j).status \in TerminalStatuses)
    /\ [][\A i \in 1..Len(jobs) :
            jobs'[i].status # jobs[i].status
                => \/ jobs[i].status = PENDING /\ jobs'[i].status = IN_PROGRESS
                   \/ /\ jobs[i].status = IN_PROGRESS
                      /\ jobs'[i].status \in TerminalStatuses]_vars

C33_Witness ==
    /\ Len(runs) = 2
    /\ runs[1].kind = "fetch" /\ runs[2].kind = "import"
    /\ runs[1].pc = "done" /\ runs[2].pc = "done"
    /\ JobOf(jobs, 1).status = TIMEOUT
    /\ JobOf(jobs, 2).status = COMPLETED

\* C38: the job of a run that has ended is completed, failed or timeout,
\* and at every moment a job is completed exactly when its progress is 100:
\* a job that is pending, in_progress, failed or timeout has a progress
\* below 100.
C38_CompletedIffFull ==
    /\ \A j \in 1..Len(runs) :
          runs[j].pc = "done" => JobOf(jobs, j).status \in TerminalStatuses
    /\ \A i \in 1..Len(jobs) :
          /\ jobs[i].status = COMPLETED <=> jobs[i].progress = 100
          /\ jobs[i].status # COMPLETED => jobs[i].progress < 100

C38_Witness ==
    /\ Len(runs) = 2
    /\ runs[1].kind = "fetch" /\ runs[2].kind = "import"
    /\ runs[1].pc = "done" /\ runs[2].pc = "done"
    /\ JobOf(jobs, 1).status = FAILED /\ JobOf(jobs, 1).progress = 80
    /\ JobOf(jobs, 2).status = COMPLETED /\ JobOf(jobs, 2).progress = 100
    /\ JobOf(jobs, 2).errors # <<>>

\* C35: runs[j] is the run scheduled with job id j.  The ids that have a
\* record are the ids that have a run, one each.  A step that schedules a
\* run schedules one, under an id that had no record, creates the pending
\* record of that id in the same request, and leaves every other run as it
\* is; and no run is ever taken back to its start.
C35_OneRunPerJob ==
    /\ [](Keys(jobs) = 1..Len(runs) /\ Len(jobs) = Len(runs))
    /\ [][Len(runs') # Len(runs)
            => /\ Len(runs') = Len(runs) + 1
               /\ SubSeq(runs', 1, Len(runs)) = runs
               /\ runs'[Len(runs')].pc = "start"
               /\ ~HasJob(jobs, Len(runs'))
               /\ HasJob(jobs', Len(runs'))
               /\ lastCall'.op = "create"
               /\ lastCall'.job_id = Len(runs')
               /\ lastCall'.before = None
               /\ lastCall'.job_type = runs'[Len(runs')].kind]_vars
    /\ [][\A j \in 1..Len(runs) :
            /\ runs'[j].kind = runs[j].kind
            /\ runs[j].pc # "start" => runs'[j].pc # "start"]_vars

C35_Witness ==
    /\ Len(runs) = 2
    /\ runs[1].kind = "fetch" /\ runs[2].kind = "fetch"
    /\ runs[1].pc \notin {"start", "done"}
    /\ runs[2].pc \notin {"start", "done"}
    /\ Keys(jobs) = {1, 2}

\* run j waits at a suspension point: inside client.fetch_keyword_report
\* (token refresh, status poll, sleep between polls, download) or inside the
\* store
Suspended(j) ==
    /\ j \in 1..Len(runs)
    /\ runs[j].pc \in {"fetch", "upsert"}

\* run j waits inside client.fetch_keyword_report
AwaitingReport(j) ==
    /\ j \in 1..Len(runs)
    /\ runs[j].pc = "fetch"

\* the task of run k has started and has not returned
Running(k) ==
    /\ k \in 1..Len(runs)
    /\ runs[k].responded
    /\ runs[k].pc # "done"

\* a step of a task or of a request handler that the loop can run
Working == NextLoop /\ now' = now

\* C36: while the pipeline of one job waits at a suspension point (inside the
\* report call, or inside the store), a status query can be answered and the
\* running pipeline of every other job can take a step.
C36_OthersStepWhileSuspended ==
    \A j \in PipeIds :
        Suspended(j) =>
            /\ ENABLED (LoopFree /\ get_status)
            /\ \A k \in PipeIds \ {j} :
                    Running(k) => ENABLED (Working /\ runs'[k] # runs[k])

\* C36, for the awaited report call alone: unless another task is inside the
\* store, the wait of run j keeps nobody from its step
C36_OthersStepWhileAwaiting ==
    \A j \in PipeIds :
        (AwaitingReport(j) /\ LoopFree) =>
            /\ ENABLED (LoopFree /\ get_status)
            /\ \A k \in PipeIds \ {j} :
                    Running(k) => ENABLED (Working /\ runs'[k] # runs[k])

\* a pipeline is inside the store while the task of another job is running
C36_StoreWhileOtherRuns ==
    \E j, k \in PipeIds :
        /\ j # k
        /\ j \in 1..Len(runs)
        /\ runs[j].pc = "upsert"
        /\ Running(k)

====
